---- MODULE Spec2Model ----
(***************************************************************************)
(* Model of the ruches-uci position representation and move generation.    *)
(* A bitboard is modelled as the set of its set bits (square indices       *)
(* 0..63, bit 8*rank+file, a1 = 0, h8 = 63); XOR is symmetric difference.  *)
(***************************************************************************)
EXTENDS Integers, FiniteSets, Sequences, TLC

VARIABLES pos, prev, mv, ply, nodes, shell, call, lookup, cache, pushes, search, fvec, ghost

vars == <<pos, prev, mv, ply, nodes, shell, call, lookup, cache, pushes, search, fvec, ghost>>

\* the game state, and the state of the services around it (the command
\* loop and the last direct call of a function)
gameVars == <<prev, mv, ply, nodes>>
vecVars == <<fvec, ghost>>
tableVars == <<lookup, cache, pushes, search, fvec, ghost>>
serviceVars == <<shell, call, lookup, cache, pushes, search, fvec, ghost>>

(***************************************************************************)
(* Bounds of the exploration.                                              *)
(***************************************************************************)
MaxPly == 2
MaxCalls == 3
MaxDepth == 3
MaxBatchDepth == 4
MaxLines == 3

(***************************************************************************)
(* Bitboard primitives (src/bitboard.rs).                                  *)
(***************************************************************************)
Squares == 0..63
Empty == {}
Full == Squares

FileOf(s) == s % 8
RankOf(s) == s \div 8
Sq(f, r) == 8 * r + f

File(f) == {s \in Squares : FileOf(s) = f}
Rank(r) == {s \in Squares : RankOf(s) = r}

FileA == File(0)
FileB == File(1)
FileC == File(2)
FileD == File(3)
FileE == File(4)
FileF == File(5)
FileG == File(6)
FileH == File(7)
Rank1 == Rank(0)
Rank2 == Rank(1)
Rank3 == Rank(2)
Rank4 == Rank(3)
Rank5 == Rank(4)
Rank6 == Rank(5)
Rank7 == Rank(6)
Rank8 == Rank(7)

Xor(a, b) == (a \ b) \cup (b \ a)

\* lsu: u64 << 8, bits shifted past bit 63 are lost
lsu(b) == {s + 8 : s \in {t \in b : t < 56}}
\* lsd: u64 >> 8
lsd(b) == {s - 8 : s \in {t \in b : t >= 8}}
\* x << 1 without the file mask: a piece on the h file lands on the a file
lsr_wrap(b) == {s + 1 : s \in {t \in b : t < 63}}
\* lsr: (x << 1) & !FILE_A
lsr(b) == {s + 1 : s \in {t \in b : FileOf(t) # 7}}
\* x >> 1 without the file mask: a piece on the a file lands on the h file
lsl_wrap(b) == {s - 1 : s \in {t \in b : t > 0}}
\* lsl: (x >> 1) & !FILE_H
lsl(b) == {s - 1 : s \in {t \in b : FileOf(t) # 0}}

RECURSIVE Add(_, _)
Add(b, n) == IF n = 0 \/ b = {} THEN b ELSE Add(lsu(b), n - 1)
RECURSIVE Sub(_, _)
Sub(b, n) == IF n = 0 \/ b = {} THEN b ELSE Sub(lsd(b), n - 1)
RECURSIVE Shl(_, _)
Shl(b, n) == IF n = 0 \/ b = {} THEN b ELSE Shl(lsl(b), n - 1)
RECURSIVE Shr(_, _)
Shr(b, n) == IF n = 0 \/ b = {} THEN b ELSE Shr(lsr(b), n - 1)

\* Iterator::next on a bitboard yields the lowest set bit first
First(b) == CHOOSE s \in b : \A t \in b : s <= t

(***************************************************************************)
(* Players, pieces (src/player.rs, src/piece.rs).                          *)
(***************************************************************************)
Players == {"White", "Black"}
Pieces == {"Pawn", "Knight", "Bishop", "Rook", "Queen", "King"}
PieceSeq == <<"Pawn", "Knight", "Bishop", "Rook", "Queen", "King">>
None == "None"

other(pl) == IF pl = "White" THEN "Black" ELSE "White"
backrank(pl) == IF pl = "White" THEN Rank1 ELSE Rank8
PlayerIdx(pl) == IF pl = "White" THEN 0 ELSE 1

starting_files(p) ==
    CASE p = "Pawn" -> Full
      [] p = "Knight" -> FileB \cup FileG
      [] p = "Bishop" -> FileC \cup FileF
      [] p = "Rook" -> FileA \cup FileH
      [] p = "Queen" -> FileD
      [] p = "King" -> FileE

startingpos_piece(p, pl) ==
    IF p = "Pawn"
    THEN (IF pl = "White" THEN Rank2 ELSE Rank7)
    ELSE backrank(pl) \cap starting_files(p)

(***************************************************************************)
(* Attack generation (dyn_attacks.rs).                                     *)
(***************************************************************************)
generate_king(king) ==
    LET u == Add(king, 1)
        d == Sub(king, 1)
        l == Shl(king, 1)
        r == Shr(king, 1)
    IN u \cup d \cup l \cup r \cup Shl(u, 1) \cup Shl(d, 1) \cup Shr(u, 1) \cup Shr(d, 1)

generate_knights(knights) ==
    LET uu == Add(knights, 2)
        dd == Sub(knights, 2)
        ll == Shl(knights, 2)
        rr == Shr(knights, 2)
    IN Shl(uu, 1) \cup Shr(uu, 1) \cup Shl(dd, 1) \cup Shr(dd, 1)
       \cup Add(rr, 1) \cup Sub(rr, 1) \cup Add(ll, 1) \cup Sub(ll, 1)

\* one step of a ray: (cur & (p | !blockers)) shifted in direction dir
Step(dir, cur, p, blockers) ==
    LET live == {s \in cur : s \in p \/ s \notin blockers}
    IN CASE dir = "u" -> lsu(live)
         [] dir = "d" -> lsd(live)
         [] dir = "l" -> lsl(live)
         [] dir = "r" -> lsr(live)
         [] dir = "ul" -> lsl(lsu(live))
         [] dir = "ur" -> lsr(lsu(live))
         [] dir = "dl" -> lsl(lsd(live))
         [] dir = "dr" -> lsr(lsd(live))

\* the loops run 7 times; a ray that became empty stays empty
RECURSIVE RayLoop(_, _, _, _, _)
RayLoop(dir, cur, p, blockers, n) ==
    IF n = 0 \/ cur = {} THEN {}
    ELSE LET nxt == Step(dir, cur, p, blockers)
         IN nxt \cup RayLoop(dir, nxt, p, blockers, n - 1)

generate_rooks(p, blockers) ==
    IF p = {} THEN {}
    ELSE RayLoop("u", p, p, blockers, 7) \cup RayLoop("d", p, p, blockers, 7)
         \cup RayLoop("l", p, p, blockers, 7) \cup RayLoop("r", p, p, blockers, 7)

generate_bishops(p, blockers) ==
    IF p = {} THEN {}
    ELSE RayLoop("ul", p, p, blockers, 7) \cup RayLoop("ur", p, p, blockers, 7)
         \cup RayLoop("dl", p, p, blockers, 7) \cup RayLoop("dr", p, p, blockers, 7)

generate_queens(p, blockers) == generate_bishops(p, blockers) \cup generate_rooks(p, blockers)

generate_pawns(p, pl) ==
    LET l == Shl(p, 1)
        r == Shr(p, 1)
    IN IF pl = "White" THEN Add(l, 1) \cup Add(r, 1) ELSE Sub(l, 1) \cup Sub(r, 1)

(***************************************************************************)
(* Static attack tables (movegen/static_attacks.rs).                       *)
(* A u64 that is not a bitboard (a magic key, a product) is written as its *)
(* six base-4096 digits, least significant first: the digit of index k     *)
(* holds bits 12k .. 12k+11, and the last digit holds bits 60 .. 63.       *)
(***************************************************************************)
LimbBase == 4096
LimbBits == 12
NbLimbs == 6

\* 2 * 4096 and 2 * 512, twice the optimum the source names
TS_ROOK == 8192
TS_BISHOP == 1024

\* the value of the bits of a bitboard that fall in digit k
RECURSIVE LimbValue(_, _)
LimbValue(bb, k) ==
    IF bb = {} THEN 0
    ELSE LET i == First(bb)
         IN (IF i \div LimbBits = k THEN 2 ^ (i % LimbBits) ELSE 0) + LimbValue(bb \ {i}, k)

\* blockers.0.0: the u64 under a bitboard, bit i for square i
Limbs(bb) == [k \in 1..NbLimbs |-> LimbValue(bb, k - 1)]

\* column k of the schoolbook product
RECURSIVE MulColumn(_, _, _, _)
MulColumn(x, y, k, i) ==
    IF i > k THEN 0 ELSE x[i + 1] * y[k - i + 1] + MulColumn(x, y, k, i + 1)

RECURSIVE MulDigits(_, _, _, _)
MulDigits(x, y, k, carry) ==
    IF k = NbLimbs THEN <<>>
    ELSE LET c == carry + MulColumn(x, y, k, 0)
         IN <<c % LimbBase>> \o MulDigits(x, y, k + 1, c \div LimbBase)

\* u64::wrapping_mul: the product modulo 2^64
wrapping_mul(x, y) ==
    LET d == MulDigits(x, y, 0, 0)
    IN [k \in 1..NbLimbs |-> IF k = NbLimbs THEN d[k] % 16 ELSE d[k]]

\* Square::from_bb(N).to_index() for a table size N that is a power of two
nb_bits(N) == CHOOSE k \in 0..16 : 2 ^ k = N

\* z >> (64 - nb_bits), read off bits 48 .. 63 of z
magic_index_dec(N, key, blockers) ==
    LET z == wrapping_mul(Limbs(blockers), key)
        top16 == z[6] * LimbBase + z[5]
    IN top16 \div (2 ^ (16 - nb_bits(N)))

\* six rounds of lr | (lr << 1) | (lr >> 1) and ud | (ud + 1) | (ud - 1)
RECURSIVE Spread(_, _, _)
Spread(lr, ud, n) ==
    IF n = 0 THEN ud \cup lr
    ELSE Spread(lr \cup Shl(lr, 1) \cup Shr(lr, 1), ud \cup Add(ud, 1) \cup Sub(ud, 1), n - 1)

mask_rook(s) ==
    LET interior == Full \ (FileA \cup FileH \cup Rank1 \cup Rank8)
        is_inner_file == ({s} \ (FileA \cup FileH)) # Empty
        is_inner_rank == ({s} \ (Rank1 \cup Rank8)) # Empty
    IN CASE is_inner_file /\ is_inner_rank ->
              (Full \cap generate_rooks({s}, Empty) \cap interior) \ {s}
         [] is_inner_file /\ ~is_inner_rank ->
              (Spread({s}, {s}, 6) \ {s}) \ (FileA \cup FileH)
         [] ~is_inner_file /\ is_inner_rank ->
              (Spread({s}, {s}, 6) \ {s}) \ (Rank1 \cup Rank8)
         [] OTHER -> Spread({s}, {s}, 6) \ {s}

mask_bishop(s) ==
    LET inner == Full \ (FileA \cup FileH \cup Rank1 \cup Rank8)
    IN (inner \cap generate_bishops({s}, Empty)) \ {s}

\* Combinations::generate counts through every subset of the bits, the empty
\* one last
Combinations(bits) == SUBSET bits

MAGIC_KEYS_BISHOP ==
    <<
    <<2606, 3349, 3810, 1487, 1189,   14>>,  \* 16475677061601647150
    <<3323, 1759, 2050, 1657, 1087,    9>>,  \* 10682370743719558395
    <<1375, 3423, 3657, 2315, 1880,    9>>,  \* 10905625644634600799
    <<3595, 1008, 2427,  491, 2785,   10>>,  \* 12313156638193159691
    <<3431, 3661,  632, 1636, 3931,    4>>,  \* 5718276587559116135
    << 905, 1474,  812,  876, 2905,    4>>,  \* 5429431037662602121
    <<3835,  425, 1505, 1150, 2838,    0>>,  \* 798905036554542843
    <<2750,  639, 1030, 2790, 3435,    4>>,  \* 5578744308051737278
    <<4066, 3473, 1577, 3419, 2266,    8>>,  \* 9861429312443981794
    << 855,  201, 1535, 3558, 3704,    5>>,  \* 6807435366422582103
    <<1668, 2254,  594, 1915, 2217,   12>>,  \* 14459219686422537860
    << 101,  117, 1106, 1100, 3481,    9>>,  \* 11356183545371906149
    <<1214, 2895,  707, 1487, 1522,   15>>,  \* 17722329681391580350
    <<3002, 2754,  313, 2324, 2820,    0>>,  \* 793919143650536378
    <<3137,  684,  541, 1795, 3738,    9>>,  \* 11428570364946074689
    <<3880, 1499, 3720, 2876, 3333,   14>>,  \* 17079254861504954152
    <<1007,  928, 3801, 4006, 1944,    4>>,  \* 5159148727150707695
    <<3091,  664,  751, 1641, 3645,    4>>,  \* 5637775089801464851
    <<2761, 1565, 3930, 2501,  948,   13>>,  \* 15254989771162901193
    <<1542, 1909,  851, 3577, 1784,   13>>,  \* 15490376742194337286
    <<3731, 1246, 3248,  636, 2215,   12>>,  \* 14458568888780975763
    <<  80,  657, 2254, 3452, 2326,    6>>,  \* 7572477080922296400
    << 542, 2366,  352, 3351, 2902,   13>>,  \* 15805050227185148446
    <<2173, 3674, 2129, 1623,  596,   11>>,  \* 12850007204239353981
    <<3123,  364, 3325, 3716, 3812,   15>>,  \* 18367060597685013555
    <<2162, 2074, 2669, 2033, 1757,   15>>,  \* 17788513854666418290
    <<3757,  457,  286, 1193,  337,   12>>,  \* 13929997109569560237
    <<1834, 3789, 2367, 2557, 1984,    3>>,  \* 4017386623043688234
    <<3544,  253, 3936, 2557, 1738,   14>>,  \* 16630280355757153752
    <<1257, 2123,  941,  118, 3237,   14>>,  \* 17052043688802563305
    <<1666,  410, 3611, 1871, 2584,    1>>,  \* 1880381479152363138
    << 836, 3621, 2188, 2697, 3451,    9>>,  \* 11347849059242234692
    <<3393, 1989,  210, 1761,  504,    9>>,  \* 10518277948253691201
    <<3994, 1192, 2144, 2409,  374,   15>>,  \* 17399259791587184538
    <<2931, 2503,  842, 2784,  685,    2>>,  \* 2498844697420397427
    <<   4, 2382, 1536, 3072,  645,   14>>,  \* 16322663556486324228
    <<4080, 1787, 1426, 2263, 2208,   15>>,  \* 17915474853787320304
    <<2273, 3491, 1791, 2597, 2824,   13>>,  \* 15783043388663281889
    <<3550,  552, 1828, 3414, 3590,    8>>,  \* 10234101842210622942
    <<1663, 1226, 2069, 3509,  354,    5>>,  \* 5864490836150756991
    <<3387, 3353, 4035, 1933, 3412,   11>>,  \* 13642662073670409531
    <<3888, 2009, 2155, 3678, 2249,   14>>,  \* 16774191073516691248
    <<3709, 2491, 2775, 1787, 2973,    4>>,  \* 5448633972460076669
    <<1315,  651, 1929,  225, 3284,    6>>,  \* 7841908345407059235
    <<2000, 1610, 3013,  448, 2405,   14>>,  \* 16817879220366911440
    <<3765,  950, 3811, 2969, 1848,   15>>,  \* 17814192418132291253
    << 414, 3978,  788, 2536, 3869,    6>>,  \* 8006729998364352926
    <<  37, 1507, 1108,  435,  425,    8>>,  \* 9343028813524512805
    <<1460, 1527, 2625, 3059, 2340,    0>>,  \* 658861702428718516
    <<3134,  759,  558, 1576, 3440,    1>>,  \* 2121303735751638078
    << 102, 2832, 4070, 3336, 3905,    7>>,  \* 9169839632772300902
    <<3326, 1547,  304, 3355, 3690,    5>>,  \* 6803480746047618302
    <<2338, 1811,  144, 3773, 3349,   14>>,  \* 17083820042508908834
    << 475, 2374,   39, 1422, 2514,   14>>,  \* 16848626875706401243
    <<3261, 3980, 3425, 1325, 1632,    9>>,  \* 10835751814238358717
    <<1855, 2839, 2849, 1769, 2995,   11>>,  \* 13525275718487996223
    <<1581,  313, 2397,   78,  667,    3>>,  \* 3646513723622004269
    <<2615, 1298, 2873,  182, 3220,   15>>,  \* 18200184549262043703
    << 122, 3734, 1236, 2767, 3753,   11>>,  \* 13738702305814470778
    <<2731, 1772, 3815, 2734, 3092,    5>>,  \* 6635116094085319339
    <<3129, 3443,  230, 1890, 1075,    1>>,  \* 1455636988254698553
    <<4052,  339, 2543, 1898, 2310,    7>>,  \* 8720788200682242004
    <<2871, 3618, 2073, 1998,  933,   10>>,  \* 11791968535648021303
    <<2394, 1685, 3104, 1695, 3053,    3>>   \* 4318224149314623834
    >>

MAGIC_KEYS_ROOK ==
    <<
    <<2419, 3393, 2806, 3674,   50,   10>>,  \* 11543541317352298867
    <<3753, 3376, 2648,  937, 1292,    2>>,  \* 2669573113713462953
    <<3150, 3329,  791,  150, 1433,    6>>,  \* 7320892990473378894
    <<1062, 1422,  103,  391, 2212,    8>>,  \* 9846021556388029478
    << 633, 3465, 2575,  359, 1172,    0>>,  \* 329913386212561529
    <<3432, 2900, 3876, 3924, 1231,    1>>,  \* 1499686921204747624
    <<1077, 1693,   30, 2897, 2277,   13>>,  \* 15629097162693530677
    <<1280, 3845, 2139, 1767, 2452,   12>>,  \* 14525356161394300160
    << 493, 1999, 1592, 1374, 1078,    8>>,  \* 9526896509027414509
    <<3700,  738, 3913, 1188,  784,    3>>,  \* 3679522599952330356
    <<1365,  854,  824, 3555, 3491,   11>>,  \* 13665010005939938645
    << 796,   66, 2212,  361,  527,   14>>,  \* 16289263222064947996
    <<1306,  307,  789, 3994, 2664,    9>>,  \* 11126417358247376154
    <<3717, 3858, 4085, 2723, 3552,   10>>,  \* 12529201355030605445
    <<1486, 3414, 3538, 3050, 3043,    2>>,  \* 3162581017120040398
    <<1080,  647, 1546, 1887, 2641,    1>>,  \* 1896426617692517432
    <<1106, 1146, 1027, 2316,  907,    3>>,  \* 3714221489240122450
    <<1120,  816, 1916, 4005,  769,    6>>,  \* 7134258538384393312
    <<1975, 3789,   65, 3499, 3779,    1>>,  \* 2216855892151556023
    <<2472,  263, 1707, 3161, 3133,   12>>,  \* 14717136408222398888
    <<1364, 1182,  497, 3459,  139,    9>>,  \* 10415656272237552980
    <<2934, 3534, 1169, 1959, 1211,   11>>,  \* 13023137388553890678
    <<1115, 3349, 1518,  500, 2387,    9>>,  \* 11048208696089859163
    <<1338, 1101, 1915, 4057, 3978,    6>>,  \* 8037515312046069050
    <<1910, 3506, 2813,  271, 1556,   12>>,  \* 14273051789230810998
    <<3735,  235,  246, 1976,  573,   15>>,  \* 17455243524572102295
    <<2588, 3895, 3162,  708,  345,    1>>,  \* 1250079078027065884
    <<1520, 2021, 3026, 1523, 1615,    8>>,  \* 9678058834781689328
    <<1259,  558, 3032, 3462, 1147,   13>>,  \* 15311069315875398891
    <<4052, 3630, 3764, 4092, 1113,    4>>,  \* 4925248930769465300
    << 771,  618, 1553,   98, 2237,   15>>,  \* 17923488852570710787
    << 728, 3936,  776, 2455, 1998,    8>>,  \* 9785927759673295576
    << 333,  997,  760, 2825, 2405,   12>>,  \* 14512199519547838797
    <<3246, 1615, 3955,  479, 1245,    0>>,  \* 350469328994630830
    <<1388,  704,  317, 3064,  580,    1>>,  \* 1316387552897009004
    <<3386, 2062, 4012,  729, 3281,   14>>,  \* 17064470626900700474
    <<3713,  300, 2633, 2106, 1855,   15>>,  \* 17816103418294619777
    <<1858, 3924,  400,  172, 3783,    1>>,  \* 2217753167980218178
    <<3373, 2981,  430,   78, 1006,   10>>,  \* 11812384239984991533
    <<  17, 2966,  556,  703,  543,    4>>,  \* 4764575249913700369
    <<1660, 3692,  950, 3452,  220,   13>>,  \* 15050141290352526972
    <<2255,  518, 2295, 1071, 3863,   12>>,  \* 14922469527380846799
    <<3813, 2346, 3527, 2417, 3680,   13>>,  \* 16023973628342349541
    << 341, 1110, 2626,  307, 3838,    7>>,  \* 9150772633804300629
    <<2784, 1286, 2052, 2889,  810,    2>>,  \* 2534036305349733088
    <<3246, 2793, 1966, 3846,  477,   11>>,  \* 12816664442669276334
    <<1363, 1410, 1626, 3072, 2184,    3>>,  \* 4073716996474676563
    <<3270, 1849, 3409, 1803, 2992,    3>>,  \* 4301061602556484806
    <<3545,  298, 1117,  307, 2702,    0>>,  \* 760566502692924889
    <<1062,  519, 3435, 3398,  977,   13>>,  \* 15263214178549134374
    <<1821,  849, 1664,  872, 1749,    1>>,  \* 1645281190178264861
    <<2042, 3061, 1572, 3227, 3130,    2>>,  \* 3187081470455797754
    <<1189, 2587, 2722,  206, 3117,    4>>,  \* 5489057722724889765
    <<1553, 2189, 2264, 1164, 2365,    3>>,  \* 4124532861204747793
    << 132,  977, 3055, 2930, 1086,    2>>,  \* 2611726233246699652
    <<1108, 3402, 2135, 1886, 3246,   12>>,  \* 14748855470451369044
    << 210, 3880,  979,  285, 3842,    0>>,  \* 1081446462013997266
    <<1854, 2935,  609, 1399,  621,    4>>,  \* 4786578127742007102
    << 870,   51, 1884,  543, 4019,    8>>,  \* 10354657314539254630
    <<  74, 2487, 1172, 4018, 2485,    2>>,  \* 3005584460870283338
    <<2602, 3709, 2672, 3424,  439,    7>>,  \* 8194253387356166698
    <<3535, 2372,  136,  185, 4057,   12>>,  \* 14977014751191911887
    <<1532, 2165,  773,  921, 1657,   15>>,  \* 17760289909127992828
    <<2806, 2014, 1864, 3157, 1078,    3>>   \* 3762411517383666422
    >>

AttackFn(kind, p, blockers) ==
    IF kind = "rook" THEN generate_rooks(p, blockers) ELSE generate_bishops(p, blockers)

\* AttackTablePart::from_key with verbose = false. Every combination c of the
\* mask writes att_fn(sq, c) | sq at magic_index_dec(key, c); a slot written
\* twice is a collision, after which the key is replaced by random::random()
\* once and the program panics on a second collision: that branch is reported
\* as "Collision" and not followed. The outcomes array is kept as index, the
\* slot each combination wrote, and read through outcomes below.
from_key(N, key, sq, blockers, kind) ==
    LET index == [c \in Combinations(blockers) |-> magic_index_dec(N, key, c)]
    IN IF Cardinality({index[c] : c \in DOMAIN index}) = Cardinality(DOMAIN index)
       THEN [res |-> "Ok", N |-> N, key |-> key, blocker_mask |-> blockers,
             sq |-> sq, att_fn |-> kind, index |-> index]
       ELSE [res |-> "Collision"]

\* outcomes[i]: what from_key wrote at slot i, Empty for a slot never written
outcomes(part, i) ==
    LET hit == {c \in DOMAIN part.index : part.index[c] = i}
    IN IF hit = {} THEN Empty
       ELSE AttackFn(part.att_fn, {part.sq}, CHOOSE c \in hit : TRUE) \cup {part.sq}

\* get without the blocker mask: the index of blockers no combination wrote
get_unmasked(part, sq, blockers) ==
    outcomes(part, magic_index_dec(part.N, part.key, {sq} \cup blockers))

\* AttackTablePart::get
get(part, sq, blockers) ==
    outcomes(part, magic_index_dec(part.N, part.key,
                                   ({sq} \cup blockers) \cap part.blocker_mask))

\* AttackTable::init: data[i] = from_key(default_keys[i], sq, mask_fn(sq), att_fn, false)
AttackTable_init(N, kind, default_keys) ==
    [i \in Squares |->
        from_key(N, default_keys[i + 1], i,
                 IF kind = "rook" THEN mask_rook(i) ELSE mask_bishop(i), kind)]

\* Lookup::init; the knight table is not read by the sliding generators
Lookup_init(keys_rook, keys_bishop) ==
    [at_rook |-> AttackTable_init(TS_ROOK, "rook", keys_rook),
     at_bishop |-> AttackTable_init(TS_BISHOP, "bishop", keys_bishop)]

\* Lookup::generate_bishops: dests | (at_bishop[(s, blockers)] & !s) for s in p
Lookup_generate_bishops(self, p, blockers) ==
    IF \E s \in p : self.at_bishop[s].res # "Ok" THEN [res |-> "Collision"]
    ELSE [res |-> "Ok",
          bb |-> UNION {get(self.at_bishop[s], s, blockers) \ {s} : s \in p}]

\* Lookup::generate_rooks: dests | (at_rook[(s, blockers)] ^ s) for s in p
Lookup_generate_rooks(self, p, blockers) ==
    IF \E s \in p : self.at_rook[s].res # "Ok" THEN [res |-> "Collision"]
    ELSE [res |-> "Ok",
          bb |-> UNION {Xor(get(self.at_rook[s], s, blockers), {s}) : s \in p}]

Lookup_generate_queens(self, p, blockers) ==
    LET b == Lookup_generate_bishops(self, p, blockers)
        r == Lookup_generate_rooks(self, p, blockers)
    IN IF b.res # "Ok" \/ r.res # "Ok" THEN [res |-> "Collision"]
       ELSE [res |-> "Ok", bb |-> b.bb \cup r.bb]


(***************************************************************************)
(* PieceSet and PlayerStorage (src/position/types.rs).  A PieceSet is a    *)
(* record of six bitboards, the cached occupancy and the cached hash.  The *)
(* hash is an XOR of ZOBRIST_SEED entries; it is modelled as the set of    *)
(* seed indices <<square, piece, player>> that are XORed in an odd number  *)
(* of times.                                                               *)
(***************************************************************************)
zobrist_hash_square(sq, pc, pl) == {<<sq, pc, pl>>}

zobrist_hash_bitboard(bb, pc, pl) == {<<sq, pc, pl>> : sq \in bb}

PieceSetEmpty ==
    [Pawn |-> {}, Knight |-> {}, Bishop |-> {}, Rook |-> {}, Queen |-> {},
     King |-> {}, occupied |-> {}, hash |-> {}]

PieceSetStartingpos(p) ==
    [Pawn |-> startingpos_piece("Pawn", p),
     Knight |-> startingpos_piece("Knight", p),
     Bishop |-> startingpos_piece("Bishop", p),
     Rook |-> startingpos_piece("Rook", p),
     Queen |-> startingpos_piece("Queen", p),
     King |-> startingpos_piece("King", p),
     occupied |-> backrank(p) \cup Add(backrank(p), 1) \cup Sub(backrank(p), 1),
     hash |-> UNION {zobrist_hash_bitboard(startingpos_piece(piece, p), piece, p) :
                        piece \in Pieces}]

\* an edit that forgets the Zobrist update
edit_without_hash(ps, pl, index, sq) ==
    [ps EXCEPT ![index] = Xor(@, {sq}),
               !.occupied = Xor(@, {sq})]

\* PieceSet::edit
edit(ps, pl, index, sq) ==
    [ps EXCEPT ![index] = Xor(@, {sq}),
               !.occupied = Xor(@, {sq}),
               !.hash = Xor(@, zobrist_hash_square(sq, index, pl))]

\* PlayerStorage::add_new_piece / remove_piece / move_piece
add_new_piece(st, pl, index, sq) == [st EXCEPT ![pl] = edit(@, pl, index, sq)]

remove_piece(st, pl, index, sq) == [st EXCEPT ![pl] = edit(@, pl, index, sq)]

move_piece(st, pl, index, src, dest) ==
    add_new_piece(remove_piece(st, pl, index, src), pl, index, dest)

StorageEmpty == [White |-> PieceSetEmpty, Black |-> PieceSetEmpty]

StorageStartingpos ==
    [White |-> PieceSetStartingpos("White"), Black |-> PieceSetStartingpos("Black")]

\* PieceSet::get_square: the first piece kind, in enum order, with a bit on sq
RECURSIVE FindPiece(_, _, _)
FindPiece(ps, sq, i) ==
    IF i > Len(PieceSeq) THEN None
    ELSE IF sq \in ps[PieceSeq[i]] THEN PieceSeq[i]
    ELSE FindPiece(ps, sq, i + 1)

get_square(ps, sq) == FindPiece(ps, sq, 1)

\* PieceSet::attacks
attacks(ps, pl, blockers) ==
    generate_pawns(ps.Pawn, pl)
    \cup generate_knights(ps.Knight)
    \cup generate_bishops(ps.Bishop \cup ps.Queen, blockers)
    \cup generate_rooks(ps.Rook \cup ps.Queen, blockers)
    \cup generate_king(ps.King)

\* PlayerStorage::generate_attacks: the blockers are the other side's occupancy
generate_attacks(st, pl) == attacks(st[pl], pl, st[other(pl)].occupied)

zobrist(st) == Xor(st.Black.hash, st.White.hash)

(***************************************************************************)
(* CastleData (src/position/castle.rs): a 4-bit value, modelled as the set *)
(* of its set bits; bit 2*player + castle, Short = 0, Long = 1.            *)
(***************************************************************************)
Castles == {"Short", "Long"}
CastleIdx(c) == IF c = "Short" THEN 0 ELSE 1
CastleBit(pl, c) == 2 * PlayerIdx(pl) + CastleIdx(c)

CASTLES_ALL_ALLOWED == {0, 1, 2, 3}
CASTLES_ALL_FORBIDDEN == {}
CASTLES_KEEP_UNCHANGED == CASTLES_ALL_FORBIDDEN

fetch(cd, pl, c) == CastleBit(pl, c) \in cd

castle_set(cd, pl, c, val) ==
    IF val THEN cd \cup {CastleBit(pl, c)} ELSE cd \ {CastleBit(pl, c)}

copy_selection_player(cd, pl, val) ==
    LET mask == {CastleBit(pl, "Short"), CastleBit(pl, "Long")}
    IN (cd \ mask) \cup (mask \cap val)

copy_selection_precise(cd, pl, c, val) ==
    LET mask == {CastleBit(pl, c)}
    IN (cd \ mask) \cup (mask \cap val)

stack_rev(cd, o) == Xor(cd, o)

king_dest_file(c) == IF c = "Long" THEN FileC ELSE FileG
rook_file(c) == IF c = "Short" THEN FileH ELSE FileA
CASTLE_FILES_SHORT == FileE \cup FileF \cup FileG
CASTLE_FILES_LONG == FileC \cup FileD \cup FileE
CASTLE_FILES_SHORT_FREE == FileF \cup FileG
CASTLE_FILES_LONG_FREE == FileB \cup FileC \cup FileD
files(c) == IF c = "Long" THEN CASTLE_FILES_LONG ELSE CASTLE_FILES_SHORT
free_files(c) == IF c = "Long" THEN CASTLE_FILES_LONG_FREE ELSE CASTLE_FILES_SHORT_FREE

(***************************************************************************)
(* Position (src/position/mod.rs).                                         *)
(***************************************************************************)
PositionStartingpos ==
    [fifty_mv |-> 0, half_move_count |-> 0, pos |-> StorageStartingpos,
     castles |-> CASTLES_ALL_ALLOWED, en_passant |-> {}]

PositionEmpty ==
    [fifty_mv |-> 0, half_move_count |-> 0, pos |-> StorageEmpty,
     castles |-> CASTLES_ALL_FORBIDDEN, en_passant |-> {}]

turn(p) == IF p.half_move_count % 2 = 0 THEN "White" ELSE "Black"

\* Position::from_fen after the fields are split: board is a sequence of
\* <<player, piece, square>> placed with add_new_piece in order, turnp the side
\* to move, cas the rights named by the castling field, ep the parsed
\* en-passant bitboard, hf and fm the two counters
RECURSIVE PlaceAll(_, _, _)
PlaceAll(st, board, i) ==
    IF i > Len(board) THEN st
    ELSE PlaceAll(add_new_piece(st, board[i][1], board[i][2], board[i][3]), board, i + 1)

from_fen(board, turnp, cas, ep, hf, fm) ==
    [fifty_mv |-> hf,
     half_move_count |-> 2 * fm + PlayerIdx(turnp),
     pos |-> PlaceAll(StorageEmpty, board, 1),
     castles |-> cas,
     en_passant |-> ep]

(***************************************************************************)
(* FEN text.  A &str is the sequence of its characters; a missing field    *)
(* (Option::None) is Absent, the empty sequence, which split_whitespace    *)
(* never yields.  A parse that unwinds is the value Panic.                 *)
(***************************************************************************)
Absent == <<>>
Panic == [res |-> "Panic"]

\* char as usize - '0' as usize for the characters '0'..'9'
DigitValue(c) ==
    CASE c = "0" -> 0 [] c = "1" -> 1 [] c = "2" -> 2 [] c = "3" -> 3 [] c = "4" -> 4
      [] c = "5" -> 5 [] c = "6" -> 6 [] c = "7" -> 7 [] c = "8" -> 8 [] c = "9" -> 9
      [] OTHER -> -1

\* str::parse::<u16>: -1 stands for Err (empty, a non-digit, or above 65535)
RECURSIVE parse_u16_loop(_, _, _)
parse_u16_loop(s, i, acc) ==
    IF i > Len(s) THEN acc
    ELSE IF DigitValue(s[i]) < 0 \/ 10 * acc + DigitValue(s[i]) >= 65536 THEN -1
    ELSE parse_u16_loop(s, i + 1, 10 * acc + DigitValue(s[i]))

parse_u16(s) == IF Len(s) = 0 THEN -1 ELSE parse_u16_loop(s, 1, 0)

\* Piece::from_notation: the piece from the lower-cased letter, the player
\* from the case; None for any other character
from_notation(c) ==
    LET piece == CASE c \in {"q", "Q"} -> "Queen" [] c \in {"n", "N"} -> "Knight"
                   [] c \in {"k", "K"} -> "King" [] c \in {"b", "B"} -> "Bishop"
                   [] c \in {"r", "R"} -> "Rook" [] c \in {"p", "P"} -> "Pawn"
                   [] OTHER -> None
        pl == IF c \in {"Q", "N", "K", "B", "R", "P"} THEN "White" ELSE "Black"
    IN IF piece = None THEN [some |-> FALSE]
       ELSE [some |-> TRUE, pl |-> pl, piece |-> piece]

\* File::from_char: files 'a'..'h', panic!() for any other character
from_char(c) ==
    LET f == CASE c = "a" -> 0 [] c = "b" -> 1 [] c = "c" -> 2 [] c = "d" -> 3
               [] c = "e" -> 4 [] c = "f" -> 5 [] c = "g" -> 6 [] c = "h" -> 7
               [] OTHER -> -1
    IN IF f < 0 THEN Panic ELSE [res |-> "Ok", bb |-> File(f)]

\* TryFrom<&str> for Bitboard<Square>: the first character goes through
\* File::from_char unless it is '-', and so does the second character
try_from(s) ==
    LET file == IF Len(s) < 1 \/ s[1] = "-" THEN [res |-> "Ok", bb |-> Empty]
                ELSE from_char(s[1])
        rank == IF Len(s) < 2 THEN [res |-> "Ok", bb |-> Empty] ELSE from_char(s[2])
    IN IF file.res = "Panic" \/ rank.res = "Panic" THEN Panic
       ELSE IF Cardinality(file.bb \cap rank.bb) = 1
            THEN [res |-> "Ok", sq |-> file.bb \cap rank.bb]
            ELSE [res |-> "Err"]

\* the board loop of Position::from_fen: sq_index starts on a8
RECURSIVE fen_board(_, _, _, _)
fen_board(fen, i, sq_index, st) ==
    IF i > Len(fen)
    THEN (IF sq_index = 8 THEN [res |-> "Ok", st |-> st] ELSE Panic)
    ELSE LET c == fen[i]
         IN IF DigitValue(c) \in 1..8
            THEN fen_board(fen, i + 1, sq_index + DigitValue(c), st)
            ELSE IF c = "/"
            THEN (IF sq_index < 16 THEN Panic
                  ELSE fen_board(fen, i + 1, sq_index - 16, st))
            ELSE IF ~from_notation(c).some \/ sq_index > 63 THEN Panic
            ELSE fen_board(fen, i + 1, sq_index + 1,
                           add_new_piece(st, from_notation(c).pl, from_notation(c).piece,
                                         sq_index))

\* the castles loop of Position::from_fen: '-' stops it, any character
\* outside KQkq panics
RECURSIVE fen_castles(_, _, _)
fen_castles(castles, i, cd) ==
    IF i > Len(castles) THEN [res |-> "Ok", cd |-> cd]
    ELSE LET c == castles[i]
         IN CASE c = "-" -> [res |-> "Ok", cd |-> cd]
              [] c = "K" -> fen_castles(castles, i + 1, castle_set(cd, "White", "Short", TRUE))
              [] c = "Q" -> fen_castles(castles, i + 1, castle_set(cd, "White", "Long", TRUE))
              [] c = "k" -> fen_castles(castles, i + 1, castle_set(cd, "Black", "Short", TRUE))
              [] c = "q" -> fen_castles(castles, i + 1, castle_set(cd, "Black", "Long", TRUE))
              [] OTHER -> Panic

\* Position::from_fen on the six text fields
from_fen_str(fen, turnf, castles, en_passant, hf_mv_until_100, full_moves) ==
    LET board == fen_board(fen, 1, 56, StorageEmpty)
        fm == parse_u16(full_moves)
        hf == parse_u16(hf_mv_until_100)
        cas == fen_castles(castles, 1, CASTLES_ALL_FORBIDDEN)
        ep == try_from(en_passant)
    IN IF \/ board.res = "Panic"
          \/ fm < 0
          \/ turnf \notin {<<"w">>, <<"b">>}
          \/ 2 * fm + (IF turnf = <<"w">> THEN 0 ELSE 1) >= 65536
          \/ hf < 0
          \/ cas.res = "Panic"
          \/ ep.res = "Panic"
       THEN Panic
       ELSE [res |-> "Ok",
             p |-> [fifty_mv |-> hf,
                    half_move_count |-> 2 * fm + (IF turnf = <<"w">> THEN 0 ELSE 1),
                    pos |-> board.st,
                    castles |-> cas.cd,
                    en_passant |-> IF ep.res = "Ok" THEN ep.sq ELSE Empty]]

\* Position::parse_fen: the two counters default to "0" and "1"; None when
\* one of the first four fields is missing
parse_fen(a, b, c, d, e, f) ==
    IF e = Absent /\ f # Absent THEN Panic
    ELSE IF a = Absent \/ b = Absent \/ c = Absent \/ d = Absent THEN [res |-> "None"]
    ELSE from_fen_str(a, b, c, d,
                      IF e = Absent THEN <<"0">> ELSE e,
                      IF f = Absent THEN <<"1">> ELSE f)

\* u16 ^ u16 on the fifty-move counter
RECURSIVE XorInt(_, _)
XorInt(a, b) ==
    IF a = 0 THEN b
    ELSE IF b = 0 THEN a
    ELSE (((a % 2) + (b % 2)) % 2) + 2 * XorInt(a \div 2, b \div 2)

(***************************************************************************)
(* Moves (src/position/movegen/mod.rs).  A Move is a record: kind is "Std" *)
(* or "Castle"; for a Std move prom tells PiecePromoted from PieceMoved, p *)
(* is the moved piece (the new piece for a promotion), cap the captured    *)
(* piece or None, from/dest the squares and cas the castle bits to toggle; *)
(* for a Castle move castle is the side and cas the bits to toggle.        *)
(* fifty_mv and en_passant are the values XORed into the position.         *)
(***************************************************************************)
StdMove(prom, p, cap, from, dest, cas, fifty, ep) ==
    [kind |-> "Std", prom |-> prom, p |-> p, cap |-> cap, from |-> from, dest |-> dest,
     cas |-> cas, castle |-> None, fifty_mv |-> fifty, en_passant |-> ep]

CastleMove(c, pl, cas, fifty, ep) ==
    [kind |-> "Castle", prom |-> FALSE, p |-> "King", cap |-> None,
     from |-> First(FileE \cap backrank(pl)),
     dest |-> First(king_dest_file(c) \cap backrank(pl)),
     cas |-> cas, castle |-> c, fifty_mv |-> fifty, en_passant |-> ep]

NoMove ==
    [kind |-> None, prom |-> FALSE, p |-> None, cap |-> None, from |-> 0, dest |-> 0,
     cas |-> {}, castle |-> None, fifty_mv |-> 0, en_passant |-> {}]

\* Change::bitboard
change_bitboard(m) == {m.dest, m.from}

is_capture(m) == m.kind = "Std" /\ m.cap # None

\* PartialMove::is_moved / AtomicMove::does_affect
is_moved(m, piece) ==
    IF m.kind = "Castle" THEN piece \in {"King", "Rook"}
    ELSE IF m.prom THEN piece = "Pawn" \/ piece = m.p
    ELSE m.p = piece

(***************************************************************************)
(* Position::stack and its parts (src/position/mod.rs).                    *)
(***************************************************************************)
stack_change_rev(st, ep, m, pl) ==
    LET st1 == IF m.p = "Pawn" /\ m.cap = "Pawn" /\ change_bitboard(m) \cap ep # {}
               THEN remove_piece(st, other(pl), "Pawn",
                        First(IF other(pl) = "Black"
                              THEN Sub(change_bitboard(m) \cap ep, 1)
                              ELSE Add(change_bitboard(m) \cap ep, 1)))
               ELSE IF m.cap # None
                    THEN remove_piece(st, other(pl), m.cap, m.dest)
                    ELSE st
    IN move_piece(st1, pl, m.p, m.from, m.dest)

\* a promotion applied as a plain pawn move
stack_prom_rev_as_pawn(st, m, pl) ==
    move_piece(st, pl, "Pawn", m.from, m.dest)

stack_prom_rev(st, m, pl) ==
    LET st1 == remove_piece(st, pl, "Pawn", m.from)
        st2 == add_new_piece(st1, pl, m.p, m.dest)
    IN IF m.cap # None THEN remove_piece(st2, other(pl), m.cap, m.dest) ELSE st2

stack_atomic_rev(st, ep, m, pl) ==
    IF m.prom THEN stack_prom_rev(st, m, pl) ELSE stack_change_rev(st, ep, m, pl)

\* the king is moved with Piece::Rook as the piece index (mod.rs line 338)
stack_castle_rev(st, cs, pl) ==
    LET king_src == First(backrank(pl) \cap FileE)
        king_dest == First(backrank(pl) \cap (IF cs = "Short" THEN FileG ELSE FileC))
        rook_src == First(backrank(pl) \cap (IF cs = "Short" THEN FileH ELSE FileA))
        rook_dest == First(backrank(pl) \cap (IF cs = "Short" THEN FileF ELSE FileD))
        st1 == move_piece(st, pl, "Rook", rook_src, rook_dest)
    IN move_piece(st1, pl, "Rook", king_src, king_dest)

stack_partial_rev(p, m) ==
    IF m.kind = "Std"
    THEN [p EXCEPT !.castles = stack_rev(@, m.cas),
                   !.pos = stack_atomic_rev(@, p.en_passant, m, turn(p))]
    ELSE [p EXCEPT !.pos = stack_castle_rev(@, m.castle, turn(p)),
                   !.castles = stack_rev(@, m.cas)]

stack(p, m) ==
    LET q == stack_partial_rev(p, m)
    IN [q EXCEPT !.fifty_mv = XorInt(@, m.fifty_mv),
                 !.en_passant = Xor(@, m.en_passant),
                 !.half_move_count = @ + 1]

\* unstack_change_rev without putting the captured piece back
unstack_change_rev_nocap(st, ep, m, pl) ==
    move_piece(st, pl, m.p, m.dest, m.from)

unstack_change_rev(st, ep, m, pl) ==
    LET st1 == move_piece(st, pl, m.p, m.dest, m.from)
    IN IF m.p = "Pawn" /\ m.cap = "Pawn" /\ change_bitboard(m) \cap ep # {}
       THEN add_new_piece(st1, other(pl), "Pawn",
                First(IF other(pl) = "Black"
                      THEN Sub(change_bitboard(m) \cap ep, 1)
                      ELSE Add(change_bitboard(m) \cap ep, 1)))
       ELSE IF m.cap # None
            THEN add_new_piece(st1, other(pl), m.cap, m.dest)
            ELSE st1

unstack_prom_rev(st, m, pl) ==
    LET st1 == remove_piece(st, pl, m.p, m.dest)
        st2 == add_new_piece(st1, pl, "Pawn", m.from)
    IN IF m.cap # None THEN add_new_piece(st2, other(pl), m.cap, m.dest) ELSE st2

unstack_atomic_rev(st, ep, m, pl) ==
    IF m.prom THEN unstack_prom_rev(st, m, pl) ELSE unstack_change_rev(st, ep, m, pl)

un_stack_castle_rev(st, cs, pl) ==
    LET king_src == First(backrank(pl) \cap FileE)
        king_dest == First(backrank(pl) \cap (IF cs = "Short" THEN FileG ELSE FileC))
        rook_src == First(backrank(pl) \cap (IF cs = "Short" THEN FileH ELSE FileA))
        rook_dest == First(backrank(pl) \cap (IF cs = "Short" THEN FileF ELSE FileD))
        st1 == move_piece(st, pl, "Rook", rook_dest, rook_src)
    IN move_piece(st1, pl, "Rook", king_dest, king_src)

un_stack_partial_rev(p, m) ==
    IF m.kind = "Std"
    THEN [p EXCEPT !.castles = stack_rev(@, m.cas),
                   !.pos = unstack_atomic_rev(@, p.en_passant, m, turn(p))]
    ELSE [p EXCEPT !.pos = un_stack_castle_rev(@, m.castle, turn(p)),
                   !.castles = stack_rev(@, m.cas)]

\* Position::unstack: the counters and the en passant mask are put back first,
\* so that turn() and the en passant test of the helpers see the values stack saw
unstack(p, m) ==
    un_stack_partial_rev([p EXCEPT !.half_move_count = @ - 1,
                                   !.fifty_mv = XorInt(@, m.fifty_mv),
                                   !.en_passant = Xor(@, m.en_passant)], m)

(***************************************************************************)
(* Destination helpers (src/position/movegen/dests.rs).                    *)
(***************************************************************************)
get_en_passant_mask(pl) ==
    IF pl = "White" THEN Rank2 \cup Rank4 ELSE Rank7 \cup Rank5

generate_next_en_passant_data(p, src, dst, pl) ==
    IF p = "Pawn" /\ {src, dst} \subseteq get_en_passant_mask(pl)
    THEN (IF pl = "White" THEN Add({src}, 1) ELSE Sub({src}, 1))
    ELSE {}

\* pawn_move_up_nocap without the mask between the two steps
pawn_move_up_jump(src, pl, blockers) ==
    LET out == IF pl = "White" THEN Add({src}, 1) ELSE Sub({src}, 1)
    IN IF src \in Rank2 \cup Rank7
       THEN (IF pl = "White" THEN out \cup Add(out, 1) ELSE out \cup Sub(out, 1)) \ blockers
       ELSE out \ blockers

pawn_move_up_nocap(src, pl, blockers) ==
    LET out == (IF pl = "White" THEN Add({src}, 1) ELSE Sub({src}, 1)) \ blockers
    IN IF src \in Rank2 \cup Rank7
       THEN (IF pl = "White" THEN out \cup Add(out, 1) ELSE out \cup Sub(out, 1)) \ blockers
       ELSE out

(***************************************************************************)
(* AugmentedPos (src/position/movegen/mod.rs): a record of the position p, *)
(* the side to move, both occupancies, the blockers, both attack maps and  *)
(* the pinned mask.                                                        *)
(***************************************************************************)
player(meta) == meta.turn
opponent(meta) == other(meta.turn)

compute_occupied(p) ==
    [White |-> p.pos.White.occupied, Black |-> p.pos.Black.occupied]

compute_pinned(p, t, occupied) ==
    LET opp == other(t)
        king == p.pos[t].King
        pseudo_blockers == occupied[opp]
        sliding_attacks ==
            generate_bishops(p.pos[opp].Bishop \cup p.pos[opp].Queen, pseudo_blockers)
            \cup generate_rooks(p.pos[opp].Rook \cup p.pos[opp].Queen, pseudo_blockers)
    IN IF sliding_attacks \cap king # {}
       THEN (generate_queens(king, occupied[opp] \cup occupied[t]) \cap sliding_attacks)
            \cup king
       ELSE {}

is_check(meta) == meta.attacked[opponent(meta)] \cap meta.p.pos[player(meta)].King # {}

\* attacks::generate: the attack set of one piece standing on src
generate(meta, pl, piece, src) ==
    CASE piece = "Pawn" -> generate_pawns({src}, pl)
      [] piece = "Knight" -> generate_knights({src})
      [] piece = "Bishop" -> generate_bishops({src}, meta.blockers)
      [] piece = "Rook" -> generate_rooks({src}, meta.blockers)
      [] piece = "Queen" -> generate_queens({src}, meta.blockers)
      [] piece = "King" -> generate_king({src})

\* dests::mask for the king: not attacked by the opponent, not own piece
mask(piece, meta) ==
    (Full \ meta.attacked[opponent(meta)]) \ meta.occupied[player(meta)]

which_piece_on_sq(sq, ps) == FindPiece(ps, sq, 1)

generate_capture_data(meta, dest, p) ==
    LET x == which_piece_on_sq(dest, meta.p.pos[opponent(meta)])
    IN IF x = None
       THEN (IF p = "Pawn" /\ dest \in meta.p.en_passant THEN "Pawn" ELSE None)
       ELSE x

generate_castle_data(meta, src, dest, piece) ==
    LET cd0 == CASTLES_KEEP_UNCHANGED
        cd1 == CASE piece = "King" -> copy_selection_player(cd0, player(meta), meta.p.castles)
                 [] piece = "Rook" ->
                      IF {src} = FileA \cap backrank(player(meta))
                      THEN copy_selection_precise(cd0, player(meta), "Long", meta.p.castles)
                      ELSE IF {src} = FileH \cap backrank(player(meta))
                      THEN copy_selection_precise(cd0, player(meta), "Short", meta.p.castles)
                      ELSE cd0
                 [] OTHER -> cd0
    IN IF {dest} = FileA \cap backrank(opponent(meta))
       THEN copy_selection_precise(cd1, opponent(meta), "Long", meta.p.castles)
       ELSE IF {dest} = FileH \cap backrank(opponent(meta))
       THEN copy_selection_precise(cd1, opponent(meta), "Short", meta.p.castles)
       ELSE cd1

\* a castle generator that forgets the attack test on the king's path
generate_castle_move_unchecked(meta, c) ==
    IF /\ fetch(meta.p.castles, player(meta), c)
       /\ (meta.occupied[player(meta)] \cup meta.occupied[opponent(meta)])
              \cap (free_files(c) \cap backrank(player(meta))) = {}
    THEN {CastleMove(c, player(meta),
                     copy_selection_player(CASTLES_KEEP_UNCHANGED, player(meta), meta.p.castles),
                     0, meta.p.en_passant)}
    ELSE {}

\* the Option<Move> of generate_castle_move as a set of zero or one move
generate_castle_move(meta, c) ==
    IF /\ fetch(meta.p.castles, player(meta), c)
       /\ meta.attacked[opponent(meta)] \cap (files(c) \cap backrank(player(meta))) = {}
       /\ (meta.occupied[player(meta)] \cup meta.occupied[opponent(meta)])
              \cap (free_files(c) \cap backrank(player(meta))) = {}
    THEN {CastleMove(c, player(meta),
                     copy_selection_player(CASTLES_KEEP_UNCHANGED, player(meta), meta.p.castles),
                     0, meta.p.en_passant)}
    ELSE {}

\* AugmentedPos::is_illegal (release build): the king of the side that just
\* moved is attacked by a bishop, rook, queen, knight or pawn of the side to move
is_illegal(p) ==
    LET t == turn(p)
        blockers == p.pos.White.occupied \cup p.pos.Black.occupied
        relevant_attacks ==
            generate_bishops(p.pos[t].Bishop \cup p.pos[t].Queen, blockers)
            \cup generate_rooks(p.pos[t].Rook \cup p.pos[t].Queen, blockers)
            \cup generate_knights(p.pos[t].Knight)
            \cup generate_pawns(p.pos[t].Pawn, t)
    IN p.pos[other(t)].King \cap relevant_attacks # {}

is_legal(p, m) == ~is_illegal(stack(p, m))

\* the position is_legal leaves behind p after its stack / unstack pair
is_legal_leaves(p, m) == unstack(stack(p, m), m)

\* add_to_move_list as a filter: TRUE when m is pushed
add_to_move_list(meta, m) ==
    LET pinned == m.from \in meta.pinned
        affect_ep == m.en_passant # {}
        edge_case == \/ pinned
                     \/ affect_ep /\ m.en_passant \cap meta.pinned # {}
                     \/ is_check(meta) /\ ~is_moved(m, "King")
    IN ~edge_case \/ is_legal(meta.p, m)

\* the moves of one non-pawn piece on src towards the squares of msk
non_pawn_move_iter(meta, piece, src, msk) ==
    {LET cap == generate_capture_data(meta, sq, piece)
     IN StdMove(FALSE, piece, cap, src, sq,
                generate_castle_data(meta, src, sq, piece),
                IF cap # None \/ piece = "Pawn" THEN meta.p.fifty_mv ELSE 0,
                Xor(meta.p.en_passant,
                    generate_next_en_passant_data(piece, src, sq, player(meta)))) :
        sq \in generate(meta, meta.turn, piece, src) \cap msk}

\* generate_pawn_atmove folded into generate_pawn_move_data: four promotions
\* on rank 1 or 8, one PieceMoved otherwise
generate_pawn_move_data(meta, src) ==
    LET blockers == meta.occupied.White \cup meta.occupied.Black
        captures == meta.p.en_passant \cup meta.occupied[opponent(meta)]
        dests == (generate_pawns({src}, meta.turn) \cap captures)
                 \cup pawn_move_up_nocap(src, player(meta), blockers)
        news(sq) == IF sq \in Rank1 \cup Rank8
                    THEN {"Knight", "Bishop", "Rook", "Queen"} ELSE {"Pawn"}
    IN UNION {{StdMove(np # "Pawn", np, generate_capture_data(meta, sq, "Pawn"), src, sq,
                       generate_castle_data(meta, src, sq, "Pawn"),
                       meta.p.fifty_mv,
                       Xor(generate_next_en_passant_data("Pawn", src, sq, meta.turn),
                           meta.p.en_passant)) : np \in news(sq)} : sq \in dests}

Augment(p) ==
    LET t == turn(p)
        occ == compute_occupied(p)
        blk == occ.White \cup occ.Black
    IN [p |-> p, turn |-> t, occupied |-> occ, blockers |-> blk,
        pinned |-> compute_pinned(p, t, occ),
        attacked |-> [pl \in Players |->
                        IF pl = other(t) THEN attacks(p.pos[pl], pl, blk)
                        \* non_pawn_move_iter_multiple_sources returns its attack
                        \* accumulator before the lazy iterator has run: only the
                        \* pawn attacks reach attacked[turn]
                        ELSE generate_pawns(p.pos[t].Pawn, t)]]

\* Square::from_bb: Some only for a bitboard of exactly one bit
HasKing(p, pl) == Cardinality(p.pos[pl].King) = 1

\* AugmentedPos::list_issues / compute_attacked_gen_moves.  res is "Ok" with
\* the move vector as a set, "Err" with no move, or "Panic": the unwrap in
\* PieceSet::attacks on the opponent's king comes first, then the Err test,
\* then "where is da king" on the mover's king
list_issues(p) ==
    IF ~HasKing(p, other(turn(p))) THEN [res |-> "Panic", moves |-> {}]
    ELSE LET meta == Augment(p)
             t == meta.turn
             free == Full \ meta.occupied[t]
             direct == UNION {UNION {non_pawn_move_iter(meta, piece, src, free) :
                                        src \in p.pos[t][piece]} :
                                 piece \in {"Bishop", "Queen", "Rook", "Knight"}}
             pawns == UNION {generate_pawn_move_data(meta, src) : src \in p.pos[t].Pawn}
             kings == non_pawn_move_iter(meta, "King", First(p.pos[t].King),
                                         mask("King", meta))
             castles == generate_castle_move(meta, "Short")
                        \cup generate_castle_move(meta, "Long")
         IN IF p.pos[other(t)].King \cap meta.attacked[t] # {}
            THEN [res |-> "Err", moves |-> {}]
            ELSE IF ~HasKing(p, t) THEN [res |-> "Panic", moves |-> {}]
            ELSE [res |-> "Ok",
                  moves |-> direct \cup {m \in pawns \cup kings \cup castles :
                                            add_to_move_list(meta, m)}]

\* the moves list_issues builds before add_to_move_list filters them
list_issues_candidates(p) ==
    LET meta == Augment(p)
        t == meta.turn
        free == Full \ meta.occupied[t]
    IN UNION {UNION {non_pawn_move_iter(meta, piece, src, free) :
                        src \in p.pos[t][piece]} :
                 piece \in {"Bishop", "Queen", "Rook", "Knight"}}
       \cup UNION {generate_pawn_move_data(meta, src) : src \in p.pos[t].Pawn}
       \cup non_pawn_move_iter(meta, "King", First(p.pos[t].King), mask("King", meta))
       \cup generate_castle_move(meta, "Short")
       \cup generate_castle_move(meta, "Long")

(***************************************************************************)
(* The map-reduce enumeration: Position::simplified_move_outcomes          *)
(* (src/position/mod.rs) applied to the candidates of AugmentedPos::       *)
(* map_issues.  A SimplifiedMove is a record piece, src, dest, hint_legal. *)
(***************************************************************************)
SimplifiedMove(piece, src, dest, hint) ==
    [piece |-> piece, src |-> src, dest |-> dest, hint_legal |-> hint]

U16 == 65536

\* the positions handed to the task for one candidate: none when the move is
\* filtered out, four for a promotion, one otherwise
simplified_move_outcomes(p, ch) ==
    LET t == turn(p)
        en_passant == ch.piece = "Pawn" /\ {ch.dest} = p.en_passant
        promotion == ch.piece = "Pawn" /\ ch.dest \in backrank(other(t))
        en_passant_change ==
            IF Sub({ch.dest}, 2) = {ch.src} THEN Sub({ch.dest}, 1)
            ELSE IF Add({ch.dest}, 2) = {ch.src} THEN Add({ch.dest}, 1)
            ELSE {}
        en_passant_target_square ==
            First(IF other(t) = "Black"
                  THEN Add({ch.dest} \cap p.en_passant, 1)
                  ELSE Sub({ch.dest} \cap p.en_passant, 1))
        cap == get_square(p.pos[other(t)], ch.dest)
        st1 == IF en_passant
               THEN remove_piece(p.pos, other(t), "Pawn", en_passant_target_square)
               ELSE IF cap # None THEN remove_piece(p.pos, other(t), cap, ch.dest)
               ELSE p.pos
        st2 == move_piece(st1, t, ch.piece, ch.src, ch.dest)
        q == [p EXCEPT !.pos = st2,
                       !.en_passant = Xor(@, en_passant_change),
                       !.fifty_mv = (@ + 1) % U16,
                       !.half_move_count = (@ + 1) % U16]
        \* the unwrap in PieceSet::attacks panics without a single king
        legal == \/ ch.hint_legal
                 \/ /\ Cardinality(st2[other(t)].King) = 1
                    /\ generate_attacks(st2, other(t)) \cap st2[t].King = {}
        st3 == remove_piece(st2, t, "Pawn", ch.dest)
    IN IF ~legal THEN {}
       ELSE IF promotion
       THEN {[q EXCEPT !.pos = add_new_piece(st3, t, np, ch.dest)] :
                np \in {"Queen", "Bishop", "Rook", "Knight"}}
       ELSE {q}

\* the destinations of one piece (dest set table of the move generation)
candidate_dests(meta, piece, src) ==
    IF piece = "Pawn"
    THEN (generate_pawns({src}, meta.turn)
             \cap (meta.occupied[opponent(meta)] \cup meta.p.en_passant))
         \cup pawn_move_up_nocap(src, meta.turn, meta.blockers)
    ELSE IF piece = "King"
    THEN generate_king({src}) \cap mask("King", meta)
    ELSE generate(meta, meta.turn, piece, src) \ meta.occupied[player(meta)]

\* hint_legal is false for a pinned source and for a move other than a king
\* move played while in check
hint_legal(meta, piece, src) ==
    ~(src \in meta.pinned \/ (is_check(meta) /\ piece # "King"))

map_issues_candidates(p) ==
    LET meta == Augment(p)
    IN UNION {UNION {{SimplifiedMove(piece, src, dest, hint_legal(meta, piece, src)) :
                         dest \in candidate_dests(meta, piece, src)} :
                        src \in p.pos[meta.turn][piece]} : piece \in Pieces}

\* the successors streamed to the task, each with its candidate
map_issues(p) ==
    IF ~HasKing(p, "White") \/ ~HasKing(p, "Black") THEN {}
    ELSE UNION {{[ch |-> ch, q |-> q] : q \in simplified_move_outcomes(p, ch)} :
                   ch \in map_issues_candidates(p)}

(***************************************************************************)
(* Perft (src/position/mod.rs): perft_top and perft_rec count the leaves   *)
(* by mapping themselves over the successors and reducing with +; the None *)
(* of an empty enumeration counts 0.                                       *)
(***************************************************************************)
RECURSIVE perft_rec(_, _)
RECURSIVE perft_sum(_, _, _)
perft_sum(succ, depth, acc) ==
    IF succ = {} THEN acc
    ELSE LET o == CHOOSE x \in succ : TRUE
         IN perft_sum(succ \ {o}, depth, acc + perft_rec(o.q, depth))

perft_rec(p, depth) ==
    IF depth = 0 THEN 1
    ELSE IF depth = 1 THEN Cardinality(map_issues(p))
    ELSE perft_sum(map_issues(p), depth - 1, 0)

\* a perft that counts the successors of the root only
perft_top_flat(p, depth) ==
    IF depth = 0 THEN 1 ELSE Cardinality(map_issues(p))

perft_top(p, depth) ==
    IF depth = 0 THEN 1 ELSE perft_sum(map_issues(p), depth - 1, 0)

NoPerft == [depth |-> 0, count |-> 0]

(***************************************************************************)
(* The positions the runs start from: the starting position and positions  *)
(* of games in progress, as Position::from_fen builds them.                *)
(***************************************************************************)
\* r1bqk1nr/pppp1ppp/2n5/2b1p3/2B1P3/5N2/PPPP1PPP/RNBQK2R w KQkq - 4 4
FenItalian ==
    from_fen(<<<<"Black", "Rook", 56>>, <<"Black", "Bishop", 58>>,
               <<"Black", "Queen", 59>>, <<"Black", "King", 60>>,
               <<"Black", "Knight", 62>>, <<"Black", "Rook", 63>>,
               <<"Black", "Pawn", 48>>, <<"Black", "Pawn", 49>>,
               <<"Black", "Pawn", 50>>, <<"Black", "Pawn", 51>>,
               <<"Black", "Pawn", 53>>, <<"Black", "Pawn", 54>>,
               <<"Black", "Pawn", 55>>, <<"Black", "Knight", 42>>,
               <<"Black", "Bishop", 34>>, <<"Black", "Pawn", 36>>,
               <<"White", "Bishop", 26>>, <<"White", "Pawn", 28>>,
               <<"White", "Knight", 21>>, <<"White", "Pawn", 8>>,
               <<"White", "Pawn", 9>>, <<"White", "Pawn", 10>>,
               <<"White", "Pawn", 11>>, <<"White", "Pawn", 13>>,
               <<"White", "Pawn", 14>>, <<"White", "Pawn", 15>>,
               <<"White", "Rook", 0>>, <<"White", "Knight", 1>>,
               <<"White", "Bishop", 2>>, <<"White", "Queen", 3>>,
               <<"White", "King", 4>>, <<"White", "Rook", 7>>>>,
             "White", {0, 1, 2, 3}, {}, 4, 4)

\* r3k2r/8/8/8/8/8/8/R3K2R w KQkq - 3 1
FenRooks ==
    from_fen(<<<<"Black", "Rook", 56>>, <<"Black", "King", 60>>,
               <<"Black", "Rook", 63>>, <<"White", "Rook", 0>>,
               <<"White", "King", 4>>, <<"White", "Rook", 7>>>>,
             "White", {0, 1, 2, 3}, {}, 3, 1)

\* 8/8/8/8/k1p4R/8/1P6/7K w - - 3 1
FenEnPassant ==
    from_fen(<<<<"Black", "King", 24>>, <<"Black", "Pawn", 26>>,
               <<"White", "Rook", 31>>, <<"White", "Pawn", 9>>,
               <<"White", "King", 7>>>>,
             "White", {}, {}, 3, 1)

\* k7/8/8/8/8/8/N7/r6K w - - 0 1
FenCheck ==
    from_fen(<<<<"Black", "King", 56>>, <<"White", "Knight", 8>>,
               <<"Black", "Rook", 0>>, <<"White", "King", 7>>>>,
             "White", {}, {}, 0, 1)

\* 7k/P7/8/8/8/8/8/7K w - - 0 1
FenPromotion ==
    from_fen(<<<<"Black", "King", 63>>, <<"White", "Pawn", 48>>,
               <<"White", "King", 7>>>>,
             "White", {}, {}, 0, 1)

\* k7/8/8/8/8/8/P7/7K w - - 0 0 (the pawn_up test)
FenPawnUp ==
    from_fen(<<<<"Black", "King", 56>>, <<"White", "Pawn", 8>>,
               <<"White", "King", 7>>>>,
             "White", {}, {}, 0, 0)

\* 1n5k/P7/8/8/8/8/8/7K w - - 0 1
FenPromotionCapture ==
    from_fen(<<<<"Black", "Knight", 57>>, <<"Black", "King", 63>>,
               <<"White", "Pawn", 48>>, <<"White", "King", 7>>>>,
             "White", {}, {}, 0, 1)

\* UciShell::new: the loop is running on the starting position, no line
\* was read and no function was called directly
NoLine == <<>>
NoCall == [fn |-> "None"]
ShellNew == [state |-> "Running", worker |-> FALSE, line |-> NoLine, lines |-> 0]
NoLookup == [at_rook |-> <<>>, at_bishop |-> <<>>]
NoCache == [mask |-> 0]
NoSearch == [tasks |-> <<>>]
NoVec == [counter |-> 0]
TablesInit ==
    cache = NoCache /\ pushes = <<>> /\ search = NoSearch /\ fvec = NoVec /\ ghost = <<>>
ServiceInit == shell = ShellNew /\ call = NoCall /\ lookup = NoLookup /\ TablesInit

StartPositions ==
    {PositionStartingpos, FenItalian, FenRooks, FenEnPassant, FenCheck, FenPromotion,
     FenPromotionCapture}

(***************************************************************************)
(* The move list and Position::stack: what the UCI position command and    *)
(* the minimax search do with a position.  prev is the position before the *)
(* last move and mv that move.                                             *)
(***************************************************************************)
Init ==
    /\ pos \in StartPositions
    /\ prev = pos
    /\ mv = NoMove
    /\ ply = 0
    /\ nodes = NoPerft
    /\ ServiceInit

PlayMove ==
    /\ ply < MaxPly
    /\ \E m \in list_issues(pos).moves :
          /\ pos' = stack(pos, m)
          /\ mv' = m
    /\ prev' = pos
    /\ ply' = ply + 1
    /\ nodes' = NoPerft
    /\ UNCHANGED serviceVars

Next == PlayMove

Spec == Init /\ [][Next]_vars

\* one successor of the map-reduce enumeration
MapIssuesStep ==
    /\ ply < MaxPly
    /\ \E o \in map_issues(pos) :
          /\ pos' = o.q
          /\ mv' = o.ch
    /\ prev' = pos
    /\ ply' = ply + 1
    /\ nodes' = NoPerft
    /\ UNCHANGED serviceVars

NextMapIssues == MapIssuesStep

SpecMapIssues == Init /\ [][NextMapIssues]_vars

\* "go perft depth": the position is left as it was, nodes is the answer
PerftTop ==
    /\ \E depth \in 1..(MaxDepth - ply) :
          nodes' = [depth |-> depth, count |-> perft_top(pos, depth)]
    /\ UNCHANGED <<pos, prev, mv, ply>>
    /\ UNCHANGED serviceVars

NextPerft == MapIssuesStep \/ PerftTop

PerftPositions == {PositionStartingpos, FenEnPassant, FenCheck, FenPromotion}

InitPerft == Init /\ pos \in PerftPositions

SpecPerft == InitPerft /\ [][NextPerft]_vars

\* perft_test: from_fen, then perft_top at one depth of the batch (0 included)
PerftTest ==
    /\ \E depth \in 0..(MaxBatchDepth - ply) :
          nodes' = [depth |-> depth, count |-> perft_top(pos, depth)]
    /\ UNCHANGED <<pos, prev, mv, ply>>
    /\ UNCHANGED serviceVars

NextPerftTest == MapIssuesStep \/ PerftTest

PerftTestPositions == {FenPawnUp, FenPromotion, FenCheck}

InitPerftTest ==
    /\ pos \in PerftTestPositions
    /\ prev = pos
    /\ mv = NoMove
    /\ ply = 0
    /\ nodes = NoPerft
    /\ ServiceInit

SpecPerftTest == InitPerftTest /\ [][NextPerftTest]_vars

(***************************************************************************)
(* The command loop (src/uci/mod.rs).  A line is the sequence of its       *)
(* whitespace-separated words, each word the sequence of its characters.   *)
(***************************************************************************)
StrUci == <<"u", "c", "i">>
StrIsReady == <<"i", "s", "r", "e", "a", "d", "y">>
StrD == <<"d">>
StrPosition == <<"p", "o", "s", "i", "t", "i", "o", "n">>
StrStartpos == <<"s", "t", "a", "r", "t", "p", "o", "s">>
StrFen == <<"f", "e", "n">>
StrMoves == <<"m", "o", "v", "e", "s">>
StrMove == <<"m", "o", "v", "e">>
StrGo == <<"g", "o">>
StrInfinite == <<"i", "n", "f", "i", "n", "i", "t", "e">>
StrStop == <<"s", "t", "o", "p">>
StrQuit == <<"q", "u", "i", "t">>

\* Iterator::nth(0) on the words: the word at index i, if any
Word(line, i) == IF i <= Len(line) THEN line[i] ELSE Absent

\* the words from index i on
Rest(line, i) == [k \in 1..(IF Len(line) >= i THEN Len(line) - i + 1 ELSE 0) |-> line[i + k - 1]]

\* the "moves" part of a position command, read from word i
parse_moves(p, line, i) ==
    IF Word(line, i) = Absent
    THEN [res |-> "Ok", cmd |-> [kind |-> "Position", p |-> p, some |-> FALSE, m |-> <<>>]]
    ELSE IF Word(line, i) \in {StrMoves, StrMove}
    THEN [res |-> "Ok", cmd |-> [kind |-> "Position", p |-> p, some |-> TRUE,
                                  m |-> Rest(line, i + 1)]]
    ELSE [res |-> "Err"]

\* uci::parse
parse(line) ==
    LET x == Word(line, 1)
    IN CASE x = Absent -> [res |-> "Err"]
         [] x = StrUci -> [res |-> "Ok", cmd |-> [kind |-> "Uci"]]
         [] x = StrIsReady -> [res |-> "Ok", cmd |-> [kind |-> "IsReady"]]
         [] x = StrD -> [res |-> "Ok", cmd |-> [kind |-> "PrintBoard"]]
         [] x = StrStop -> [res |-> "Ok", cmd |-> [kind |-> "Stop"]]
         [] x = StrQuit -> [res |-> "Ok", cmd |-> [kind |-> "Quit"]]
         [] x = StrGo ->
              (IF Word(line, 2) = StrInfinite
               THEN [res |-> "Ok", cmd |-> [kind |-> "Go"]]
               ELSE Panic)
         [] x = StrPosition ->
              (CASE Word(line, 2) = StrStartpos -> parse_moves(PositionStartingpos, line, 3)
                 [] Word(line, 2) = StrFen ->
                      (LET f == parse_fen(Word(line, 3), Word(line, 4), Word(line, 5),
                                          Word(line, 6), Word(line, 7), Word(line, 8))
                       IN CASE f.res = "Panic" -> Panic
                            [] f.res = "None" -> [res |-> "Err"]
                            [] OTHER -> parse_moves(f.p, line, 9))
                 [] OTHER -> [res |-> "Err"])
         [] OTHER -> [res |-> "Err"]

\* the Debug text of a square and of a SimplifiedMove, as getmove compares
\* it with the move word
SquareName(sq) ==
    <<<<"a", "b", "c", "d", "e", "f", "g", "h">>[FileOf(sq) + 1],
      <<"1", "2", "3", "4", "5", "6", "7", "8">>[RankOf(sq) + 1]>>

notation(src, dest) == SquareName(src) \o SquareName(dest)

\* UciNotation for (&Castle, &Player)
castle_to_uci(c, pl) ==
    IF c = "Short"
    THEN IF pl = "Black" THEN <<"e", "8", "g", "8">> ELSE <<"e", "1", "g", "1">>
    ELSE IF pl = "Black" THEN <<"e", "8", "c", "8">> ELSE <<"e", "1", "c", "1">>

\* Display for PartialMove, pl the player of a Castle move: the short castles
\* are written with writeln!, which ends the text with a line feed
PartialMove_fmt(m, pl) ==
    IF m.kind = "Castle"
    THEN IF m.castle = "Short"
         THEN IF pl = "Black" THEN <<"e", "8", "g", "8", "\n">>
                              ELSE <<"e", "1", "g", "1", "\n">>
         ELSE IF pl = "Black" THEN <<"e", "8", "c", "8">> ELSE <<"e", "1", "c", "1">>
    ELSE notation(m.from, m.dest)

\* Position::getmove: always Ok; found is empty for Ok(None), which is the
\* answer both when no successor matches and when none was explored
getmove(p, uci) ==
    [res |-> "Ok",
     found |-> {o.ch : o \in {x \in map_issues(p) : notation(x.ch.src, x.ch.dest) = uci}}]

\* the Position arm of runcommand from move i on: the positions it can
\* leave in the shell, or Panic ("did not manage to play move")
RECURSIVE play_moves(_, _, _)
play_moves(p, m, i) ==
    IF i > Len(m) THEN {[res |-> "Ok", p |-> p]}
    ELSE LET g == getmove(p, m[i])
             played == {x \in list_issues(p).moves :
                           \E ch \in g.found : x.from = ch.src /\ x.dest = ch.dest}
         IN IF g.found = {} \/ played = {} THEN {Panic}
            ELSE UNION {play_moves(stack(p, x), m, i + 1) : x \in played}

\* UciShell::runcommand: the shells it can leave, sh.state "Returned" for
\* Finished(true), "Panicked" when it unwinds
runcommand(sh, p, c) ==
    CASE c.kind = "Quit" -> {[sh |-> [sh EXCEPT !.state = "Returned"], p |-> p]}
      [] c.kind = "Stop" -> {[sh |-> [sh EXCEPT !.worker = FALSE], p |-> p]}
      [] c.kind = "Go" ->
           (IF sh.worker THEN {[sh |-> [sh EXCEPT !.state = "Panicked"], p |-> p]}
            ELSE {[sh |-> [sh EXCEPT !.worker = TRUE], p |-> p]})
      [] c.kind = "Position" ->
           {IF r.res = "Panic" THEN [sh |-> [sh EXCEPT !.state = "Panicked"], p |-> c.p]
            ELSE [sh |-> sh, p |-> r.p] : r \in play_moves(c.p, c.m, 1)}
      [] OTHER -> {[sh |-> sh, p |-> p]}

\* one turn of the loop of UciShell::run on the line read
run(sh, p, line) ==
    LET c == parse(line)
        sh1 == [sh EXCEPT !.line = line, !.lines = @ + 1]
    IN IF c.res # "Ok" THEN {[sh |-> [sh1 EXCEPT !.state = "Panicked"], p |-> p]}
       ELSE runcommand(sh1, p, c.cmd)

\* the text of the board of the starting position and of the pawn_up test
BoardStartpos ==
    <<"r", "n", "b", "q", "k", "b", "n", "r", "/", "p", "p", "p", "p", "p", "p", "p", "p",
      "/", "8", "/", "8", "/", "8", "/", "8", "/",
      "P", "P", "P", "P", "P", "P", "P", "P", "/", "R", "N", "B", "Q", "K", "B", "N", "R">>
BoardPawnUp ==
    <<"k", "7", "/", "8", "/", "8", "/", "8", "/", "8", "/", "8", "/", "P", "7", "/",
      "7", "K">>
\* a board with a character that is no piece letter
BoardBadPiece ==
    <<"k", "7", "/", "8", "/", "8", "/", "8", "/", "8", "/", "8", "/", "X", "7", "/",
      "7", "K">>

\* lines that are well formed
GoodLines ==
    {<<StrUci>>, <<StrIsReady>>, <<StrD>>, <<StrStop>>, <<StrQuit>>,
     <<StrGo, StrInfinite>>,
     <<StrPosition, StrStartpos>>,
     <<StrPosition, StrStartpos, StrMoves, <<"e", "2", "e", "4">>>>,
     <<StrPosition, StrFen, BoardPawnUp, <<"w">>, <<"-">>, <<"-">>, <<"0">>, <<"1">>>>,
     <<StrPosition, StrFen, BoardPawnUp, <<"w">>, <<"-">>, <<"-">>,
       <<"0">>, <<"1">>, StrMoves, <<"a", "2", "a", "3">>>>}

\* an unrecognised command, malformed commands, a malformed FEN, and move
\* words that match no legal move of the position
FailureLines ==
    {<<<<"x", "y", "z", "z", "y">>>>,
     <<>>,
     <<StrPosition>>,
     <<StrPosition, <<"h", "e", "r", "e">>>>,
     <<StrPosition, StrFen, BoardBadPiece, <<"w">>, <<"-">>, <<"-">>, <<"0">>, <<"1">>>>,
     <<StrPosition, StrFen, BoardPawnUp, <<"x">>, <<"-">>, <<"-">>, <<"0">>, <<"1">>>>,
     <<StrPosition, StrFen, BoardPawnUp>>,
     <<StrPosition, StrStartpos, StrMoves, <<"e", "2", "e", "5">>>>,
     <<StrPosition, StrStartpos, StrMoves, <<"b", "a", "d">>>>}

UciLines == GoodLines \cup FailureLines

InitShell ==
    /\ pos = PositionStartingpos
    /\ prev = pos
    /\ mv = NoMove
    /\ ply = 0
    /\ nodes = NoPerft
    /\ ServiceInit

\* the loop reads one line and runs it to completion
ReadLine ==
    /\ shell.state = "Running"
    /\ shell.lines < MaxLines
    /\ \E line \in UciLines : \E r \in run(shell, pos, line) :
          /\ shell' = r.sh
          /\ pos' = r.p
    /\ UNCHANGED <<gameVars, call, tableVars>>

NextShell == ReadLine

SpecShell == InitShell /\ [][NextShell]_vars

(***************************************************************************)
(* Direct calls of Position::from_fen on six text fields, as perft_test    *)
(* and extract_fen make them.                                              *)
(***************************************************************************)
FenBoards == {BoardStartpos, BoardPawnUp}
FenTurns == {<<"w">>, <<"b">>}
FenCastlings == {<<"-">>, <<"K", "Q", "k", "q">>}
FenEnPassants == {<<"-">>, <<"e", "3">>, <<"a", "6">>, <<"h", "6">>}
FenClocks == {<<"0">>, <<"7">>}
FenFullMoves == {<<"1">>, <<"2">>, <<"4", "0">>}

InitFen ==
    /\ pos = PositionEmpty
    /\ prev = pos
    /\ mv = NoMove
    /\ ply = 0
    /\ nodes = NoPerft
    /\ ServiceInit

FromFen ==
    /\ call = NoCall
    /\ \E fen \in FenBoards, t \in FenTurns, c \in FenCastlings, e \in FenEnPassants,
          hf \in FenClocks, fm \in FenFullMoves :
          call' = [fn |-> "from_fen", fen |-> fen, turn |-> t, castles |-> c,
                   en_passant |-> e, hf_mv_until_100 |-> hf, full_moves |-> fm,
                   out |-> from_fen_str(fen, t, c, e, hf, fm)]
    /\ UNCHANGED <<pos, gameVars, shell, tableVars>>

NextFen == FromFen

SpecFen == InitFen /\ [][NextFen]_vars

(***************************************************************************)
(* Calls of the attack generators: the dynamic generators of               *)
(* dyn_attacks.rs and the table generators of Lookup, on sources and       *)
(* blockers drawn from the sets below.                                     *)
(***************************************************************************)
SliderKinds == {"bishops", "rooks", "queens"}
FixedKinds == {"king", "knights", "pawns"}

\* blocker sets: none, the ones of the unit tests, two in a row, the starting
\* occupancy, the border of the board, every square
BlockerSets ==
    { Empty,
      {Sq(2, 4), Sq(4, 2)},
      {Sq(5, 3)},
      {Sq(0, 2), Sq(2, 2), Sq(2, 0)},
      {Sq(3, 4), Sq(3, 5), Sq(1, 3)},
      Rank1 \cup Rank2 \cup Rank7 \cup Rank8,
      FileA \cup FileH \cup Rank1 \cup Rank8,
      Full }

\* several pieces of one kind: neighbours on a line, on a diagonal, far apart
SourcePairs ==
    { {Sq(0, 0), Sq(0, 1)}, {Sq(3, 3), Sq(5, 3)}, {Sq(2, 2), Sq(4, 4)},
      {Sq(0, 3), Sq(7, 3)}, {Sq(1, 0), Sq(6, 7)}, {Sq(0, 0), Sq(7, 7), Sq(3, 3)} }

SourceSets == {{s} : s \in Squares} \cup SourcePairs

\* sources of the table generators: a corner, an edge, the centre, pairs
LookupSources ==
    { {Sq(3, 3)}, {Sq(0, 0)}, {Sq(7, 3)}, {Sq(4, 7)} } \cup SourcePairs

dyn_generate(kind, p, blockers) ==
    CASE kind = "bishops" -> generate_bishops(p, blockers)
      [] kind = "rooks" -> generate_rooks(p, blockers)
      [] kind = "queens" -> generate_queens(p, blockers)

Lookup_generate(self, kind, p, blockers) ==
    CASE kind = "bishops" -> Lookup_generate_bishops(self, p, blockers)
      [] kind = "rooks" -> Lookup_generate_rooks(self, p, blockers)
      [] kind = "queens" -> Lookup_generate_queens(self, p, blockers)

InitAttacks ==
    /\ pos = PositionEmpty
    /\ prev = pos
    /\ mv = NoMove
    /\ ply = 0
    /\ nodes = NoPerft
    /\ ServiceInit

\* the state after Lookup::init()
InitLookup ==
    /\ pos = PositionEmpty
    /\ prev = pos
    /\ mv = NoMove
    /\ ply = 0
    /\ nodes = NoPerft
    /\ shell = ShellNew
    /\ call = NoCall
    /\ lookup = Lookup_init(MAGIC_KEYS_ROOK, MAGIC_KEYS_BISHOP)
    /\ TablesInit

\* dyn_attacks::generate_bishops / generate_rooks / generate_queens
DynGenerate ==
    /\ call = NoCall
    /\ \E kind \in SliderKinds, p \in SourceSets, b \in BlockerSets, own \in BOOLEAN :
          LET blockers == IF own THEN b \cup p ELSE b
          IN call' = [fn |-> "dyn_attacks", kind |-> kind, p |-> p,
                      blockers |-> blockers, out |-> dyn_generate(kind, p, blockers)]
    /\ UNCHANGED <<pos, gameVars, shell, tableVars>>

\* Lookup::generate_bishops / generate_rooks / generate_queens; dyn is the value
\* the debug_assert_eq! of each of them compares dests with
LookupGenerate ==
    /\ call = NoCall
    /\ \E kind \in SliderKinds, p \in LookupSources, b \in BlockerSets, own \in BOOLEAN :
          LET blockers == IF own THEN b \cup p ELSE b
          IN call' = [fn |-> "Lookup", kind |-> kind, p |-> p, blockers |-> blockers,
                      dests |-> Lookup_generate(lookup, kind, p, blockers),
                      dyn |-> dyn_generate(kind, p, blockers)]
    /\ UNCHANGED <<pos, gameVars, shell, tableVars>>

\* dyn_attacks::generate_king (one square) / generate_knights / generate_pawns
FixedGenerate ==
    /\ call = NoCall
    /\ \/ \E s \in Squares :
             call' = [fn |-> "dyn_attacks", kind |-> "king", p |-> {s},
                      out |-> generate_king({s})]
       \/ \E p \in SourceSets :
             call' = [fn |-> "dyn_attacks", kind |-> "knights", p |-> p,
                      out |-> generate_knights(p)]
       \/ \E p \in SourceSets, pl \in Players :
             call' = [fn |-> "dyn_attacks", kind |-> "pawns", p |-> p, pl |-> pl,
                      out |-> generate_pawns(p, pl)]
    /\ UNCHANGED <<pos, gameVars, shell, tableVars>>

NextAttacks == DynGenerate \/ FixedGenerate

SpecAttacks == InitAttacks /\ [][NextAttacks]_vars

NextLookup == LookupGenerate

SpecLookup == InitLookup /\ [][NextLookup]_vars

\* the squares one, two and three steps ahead of src for pl, on the board or not
Ahead(src, pl) ==
    {src + k * (IF pl = "White" THEN 8 ELSE 0 - 8) : k \in 1..3} \cap Squares

\* dests::pawn_move_up_nocap for a pawn on ranks 2 to 7; the blockers are the
\* pawn's own square and any of the squares ahead of it
PawnMoveUp ==
    /\ call = NoCall
    /\ \E src \in Squares \ (Rank1 \cup Rank8), pl \in Players :
          \E b \in SUBSET Ahead(src, pl) :
             call' = [fn |-> "pawn_move_up_nocap", src |-> src, pl |-> pl,
                      blockers |-> b \cup {src},
                      out |-> pawn_move_up_nocap(src, pl, b \cup {src})]
    /\ UNCHANGED <<pos, gameVars, shell, tableVars>>

NextPawnPush == PawnMoveUp

SpecPawnPush == InitAttacks /\ [][NextPawnPush]_vars

(***************************************************************************)
(* Transposition table (tt/mod.rs): PerftCache = Cache<PerftInfo, usize,   *)
(* Position>.  A position enters the cache only through Hashable::hash and *)
(* Hashable::safety_feature, so an index is a record of the two with an id *)
(* standing for the position itself (what _positions stores and == tests). *)
(***************************************************************************)
CacheSize == 16
MaxPushes == 3

PerftInfos == [nodes : {20, 400}, depth : 1..2]

\* two positions of one slot with different safety features, a position of
\* another slot, and a position that shares hash and safety feature with the
\* first (a collision the safety feature does not detect)
CacheKeys ==
    { [id |-> 1, hash |-> 5, safety |-> 11],
      [id |-> 2, hash |-> 5 + CacheSize, safety |-> 12],
      [id |-> 3, hash |-> 6, safety |-> 13],
      [id |-> 4, hash |-> 5, safety |-> 11] }

Uninit == [init |-> FALSE]
NoSafety == [some |-> FALSE]

\* PerftInfo::pick_more_relevant that keeps the stored entry on equal depth
pick_first_on_tie(x, y) == IF x.depth >= y.depth THEN x ELSE y

\* PerftInfo::pick_more_relevant
pick_more_relevant(x, y) == IF x.depth > y.depth THEN x ELSE y

\* n is asserted to be a power of two
compute_mask_for_size(n) == n - 1

\* Cache::new; debug is cfg(debug_assertions), positions is _debug._positions
Cache_new(n, debug) ==
    [mask |-> compute_mask_for_size(n),
     raw |-> [i \in 0..(n - 1) |-> Uninit],
     safety |-> [i \in 0..(n - 1) |-> NoSafety],
     debug |-> debug,
     positions |-> [i \in 0..(n - 1) |-> Uninit],
     panicked |-> FALSE]

\* mask & hash, the mask being a power of two minus one
compute_index(c, idx) == idx.hash % (c.mask + 1)

\* Cache::index: None on an empty slot or another safety feature; a debug build
\* panics when the slot holds another position with the same safety feature
Cache_index(c, idx) ==
    LET i == compute_index(c, idx)
    IN IF c.safety[i] = NoSafety THEN [res |-> "None"]
       ELSE IF c.safety[i] = [some |-> TRUE, v |-> idx.safety]
            THEN IF c.debug /\ c.positions[i] # idx THEN Panic
                 ELSE [res |-> "Some", x |-> c.raw[i]]
            ELSE [res |-> "None"]

overwrite_entry(c, idx, x) ==
    LET i == compute_index(c, idx)
    IN [c EXCEPT !.safety[i] = [some |-> TRUE, v |-> idx.safety],
                 !.positions[i] = IF c.debug THEN idx ELSE @,
                 !.raw[i] = x]

\* Cache::push
Cache_push(c, idx, y) ==
    LET a == Cache_index(c, idx)
    IN CASE a.res = "Panic" -> [c EXCEPT !.panicked = TRUE]
         [] a.res = "Some" ->
              IF y = pick_more_relevant(a.x, y) THEN overwrite_entry(c, idx, y) ELSE c
         [] a.res = "None" -> overwrite_entry(c, idx, y)

InitCache ==
    /\ pos = PositionEmpty
    /\ prev = pos
    /\ mv = NoMove
    /\ ply = 0
    /\ nodes = NoPerft
    /\ shell = ShellNew
    /\ call = NoCall
    /\ lookup = NoLookup
    /\ \E debug \in BOOLEAN : cache = Cache_new(CacheSize, debug)
    /\ pushes = <<>>
    /\ search = NoSearch
    /\ fvec = NoVec
    /\ ghost = <<>>

Push ==
    /\ ~cache.panicked
    /\ Len(pushes) < MaxPushes
    /\ \E idx \in CacheKeys, y \in PerftInfos :
          /\ cache' = Cache_push(cache, idx, y)
          /\ pushes' = Append(pushes, <<idx, y>>)
    /\ UNCHANGED <<pos, gameVars, shell, call, lookup, search, vecVars>>

NextCache == Push

SpecCache == InitCache /\ [][NextCache]_vars

(***************************************************************************)
(* FastVec (localvec.rs): a stack buffer of N entries, then a heap vector. *)
(* An entry of the stack buffer that was never written is Uninit; the heap *)
(* that was never created is the empty sequence with already_init_heap     *)
(* FALSE.                                                                  *)
(***************************************************************************)
FastVecN == 2
MaxOps == 6
Entries == {"a", "b"}
NoEntry == [res |-> "None"]

FastVec_new ==
    [stack |-> [i \in 0..(FastVecN - 1) |-> Uninit],
     heap |-> <<>>,
     counter |-> 0,
     already_init_heap |-> FALSE]

FastVec_push(v, entry) ==
    IF v.counter < FastVecN
    THEN [v EXCEPT !.stack[v.counter] = entry, !.counter = @ + 1]
    ELSE [v EXCEPT !.heap = Append(IF v.already_init_heap THEN @ ELSE <<>>, entry),
                   !.already_init_heap = TRUE,
                   !.counter = @ + 1]

\* pop that takes from the heap as soon as the stack buffer is full
FastVec_pop_at_capacity(v) ==
    IF v.counter >= FastVecN /\ v.counter >= 1
    THEN [v |-> [v EXCEPT !.counter = @ - 1,
                          !.heap = IF @ = <<>> THEN @ ELSE SubSeq(@, 1, Len(@) - 1)],
          out |-> IF v.heap = <<>> THEN NoEntry
                  ELSE [res |-> "Some", x |-> v.heap[Len(v.heap)]]]
    ELSE IF v.counter >= 1
    THEN [v |-> [v EXCEPT !.counter = @ - 1],
          out |-> [res |-> "Some", x |-> v.stack[v.counter - 1]]]
    ELSE [v |-> v, out |-> NoEntry]

\* FastVec::pop: the vector it leaves and the Option it returns
FastVec_pop(v) ==
    IF v.counter > FastVecN
    THEN [v |-> [v EXCEPT !.counter = @ - 1,
                          !.heap = IF @ = <<>> THEN @ ELSE SubSeq(@, 1, Len(@) - 1)],
          out |-> IF v.heap = <<>> THEN NoEntry
                  ELSE [res |-> "Some", x |-> v.heap[Len(v.heap)]]]
    ELSE IF v.counter >= 1
    THEN [v |-> [v EXCEPT !.counter = @ - 1],
          out |-> [res |-> "Some", x |-> v.stack[v.counter - 1]]]
    ELSE [v |-> v, out |-> NoEntry]

FastVec_len(v) == v.counter

\* LocalVecIterator::next from curr on, collected
RECURSIVE FastVec_iter(_, _)
FastVec_iter(v, curr) ==
    IF v.counter = curr THEN <<>>
    ELSE IF curr < FastVecN THEN <<v.stack[curr]>> \o FastVec_iter(v, curr + 1)
    ELSE <<v.heap[curr - FastVecN + 1]>> \o FastVec_iter(v, curr + 1)

\* Index<usize>::index
FastVec_index(v, i) ==
    IF i >= v.counter THEN Panic
    ELSE IF i >= FastVecN THEN [res |-> "Ok", x |-> v.heap[i - FastVecN + 1]]
    ELSE [res |-> "Ok", x |-> v.stack[i]]

\* ghost: the sequence a growable vector would hold, the answer it would give
\* to the last pop, and the number of calls made
InitVec ==
    /\ pos = PositionEmpty
    /\ prev = pos
    /\ mv = NoMove
    /\ ply = 0
    /\ nodes = NoPerft
    /\ shell = ShellNew
    /\ call = NoCall
    /\ lookup = NoLookup
    /\ cache = NoCache
    /\ pushes = <<>>
    /\ search = NoSearch
    /\ fvec = FastVec_new
    /\ ghost = [items |-> <<>>, ops |-> 0, popped |-> NoEntry]

VecPush ==
    /\ ghost.ops < MaxOps
    /\ \E entry \in Entries :
          /\ fvec' = FastVec_push(fvec, entry)
          /\ ghost' = [ghost EXCEPT !.items = Append(@, entry), !.ops = @ + 1]
          /\ call' = [fn |-> "push", entry |-> entry]
    /\ UNCHANGED <<pos, gameVars, shell, lookup, cache, pushes, search>>

VecPop ==
    /\ ghost.ops < MaxOps
    /\ fvec' = FastVec_pop(fvec).v
    /\ call' = [fn |-> "pop", out |-> FastVec_pop(fvec).out]
    /\ ghost' = [ghost EXCEPT
                    !.items = IF @ = <<>> THEN @ ELSE SubSeq(@, 1, Len(@) - 1),
                    !.ops = @ + 1,
                    !.popped = IF ghost.items = <<>> THEN NoEntry
                               ELSE [res |-> "Some", x |-> ghost.items[Len(ghost.items)]]]
    /\ UNCHANGED <<pos, gameVars, shell, lookup, cache, pushes, search>>

NextVec == VecPush \/ VecPop

SpecVec == InitVec /\ [][NextVec]_vars

(***************************************************************************)
(* Material evaluation (eval/s_count_material.rs, eval/mod.rs).            *)
(***************************************************************************)
PlayerSeq == <<"White", "Black">>

\* Piece::value; the king has none (panic!())
value(piece) ==
    CASE piece = "Pawn" -> 100
      [] piece = "Knight" -> 300
      [] piece = "Bishop" -> 300
      [] piece = "Rook" -> 500
      [] piece = "Queen" -> 900

\* Iterator::zip stops with the shorter of the two iterators
Zip(a, b) ==
    [i \in 1..(IF Len(a) < Len(b) THEN Len(a) ELSE Len(b)) |-> <<a[i], b[i]>>]

RECURSIVE SumSeq(_, _)
SumSeq(q, i) == IF i > Len(q) THEN 0 ELSE q[i] + SumSeq(q, i + 1)

\* eval_fn: all::<Player>().zip(all::<Piece>()) mapped to
\* (1 - 2 * pl) * count(ps[(pl, pc)]) and summed; Piece::value is not called
eval_fn(p) ==
    LET pairs == Zip(PlayerSeq, PieceSeq)
        a == [i \in 1..Len(pairs) |->
                (1 - 2 * PlayerIdx(pairs[i][1]))
                    * Cardinality(p.pos[pairs[i][1]][pairs[i][2]])]
    IN [kind |-> "Approx", cp |-> SumSeq(a, 1), depth |-> 0]

\* the squares of a bitboard in the order its iterator yields them
RECURSIVE SquaresOf(_)
SquaresOf(bb) == IF bb = {} THEN <<>> ELSE <<First(bb)>> \o SquaresOf(bb \ {First(bb)})

RECURSIVE FlatMap(_, _, _)
FlatMap(st, pairs, i) ==
    IF i > Len(pairs) THEN <<>>
    ELSE LET sqs == SquaresOf(st[pairs[i][1]][pairs[i][2]])
         IN [k \in 1..Len(sqs) |-> <<pairs[i][1], pairs[i][2], sqs[k]>>]
            \o FlatMap(st, pairs, i + 1)

\* PlayerStorage::map_reduce: the triples handed to the task, in order;
\* all::<Player>().zip(all::<Piece>()).flat_map(enum_squares). The Option
\* returned by reduce is None exactly when no triple was produced.
map_reduce_triples(st) == FlatMap(st, Zip(PlayerSeq, PieceSeq), 1)

map_reduce_is_none(st) == map_reduce_triples(st) = <<>>

(***************************************************************************)
(* Evaluations (src/eval/mod.rs) and the minimax search                    *)
(* (src/search/basic_minimax.rs).  An Eval is a record of kind "Mate"      *)
(* (p, hmove_count) or "Approx" (cp, depth).  The principal variation of   *)
(* an EvalState is left out: the move list is a set here and the order of  *)
(* equal moves only changes the variation, not the evaluation.             *)
(***************************************************************************)
m0(p) == [kind |-> "Mate", p |-> p, hmove_count |-> 0]

draw == [kind |-> "Approx", cp |-> 0, depth |-> 0]

\* ForcedMate::pick_best_for: TRUE when e1 is picked
ForcedMate_pick_best_for(p, e0, e1) ==
    IF e0.p = e1.p
    THEN IF p = e0.p THEN e0.hmove_count >= e1.hmove_count
                     ELSE e0.hmove_count < e1.hmove_count
    ELSE e0.p # p

\* ApproxEval::pick_best_for
ApproxEval_pick_best_for(p, e0, e1) ==
    IF e0.cp = e1.cp THEN e0.depth < e1.depth
    ELSE (e0.cp < e1.cp) = (p = "White")

\* Eval::pick_best_for
Eval_pick_best_for(p, e0, e1) ==
    CASE e0.kind = "Mate" /\ e1.kind = "Mate" -> ForcedMate_pick_best_for(p, e0, e1)
      [] e0.kind = "Approx" /\ e1.kind = "Approx" -> ApproxEval_pick_best_for(p, e0, e1)
      [] e0.kind = "Mate" /\ e1.kind = "Approx" -> e0.p # p
      [] OTHER -> ~(e1.p # p)

\* Eval::nest
nest(e) ==
    IF e.kind = "Approx" THEN [e EXCEPT !.depth = @ + 1]
    ELSE [e EXCEPT !.hmove_count = @ + 1]

\* eval_minimax: Ok with the evaluation, Err for a position list_issues
\* rejects, Panic where list_issues panics.  The loop over the move list is
\* minimax_loop: best is best_eval, explored the count of children that
\* returned Ok; a child that returned Err is skipped.
RECURSIVE eval_minimax(_, _)
RECURSIVE minimax_loop(_, _, _, _, _)
\* the body of the loop for the move m, child being what eval_minimax
\* returned for the position after m
minimax_body(p, depth, rest, best, explored, child) ==
    IF child.res = "Panic" THEN Panic
    ELSE IF child.res = "Err" THEN minimax_loop(p, depth, rest, best, explored)
    ELSE minimax_loop(p, depth, rest,
                      IF Eval_pick_best_for(turn(p), best, child.eval)
                      THEN child.eval ELSE best,
                      explored + 1)

minimax_move(p, depth, moves, best, explored, m) ==
    minimax_body(p, depth, moves \ {m}, best, explored,
                 eval_minimax(stack(p, m), depth - 1))

minimax_loop(p, depth, moves, best, explored) ==
    IF moves = {}
    THEN IF explored = 0
         THEN [res |-> "Ok", eval |-> draw]
         ELSE [res |-> "Ok", eval |-> nest(best)]
    ELSE minimax_move(p, depth, moves, best, explored, CHOOSE x \in moves : TRUE)

\* eval_minimax once list_issues has returned a
minimax_of(a, p, depth) ==
    IF a.res = "Panic" THEN Panic
    ELSE IF a.res = "Err" THEN [res |-> "Err"]
    ELSE IF depth = 0 THEN [res |-> "Ok", eval |-> eval_fn(p)]
    ELSE minimax_loop(p, depth, a.moves, m0(other(turn(p))), 0)

eval_minimax(p, depth) == minimax_of(list_issues(p), p, depth)

\* R6k/6pp/8/8/8/8/8/7K b - - 0 1: Black is mated on the back rank
FenBackRankMate ==
    from_fen(<<<<"White", "Rook", 56>>, <<"Black", "King", 63>>,
               <<"Black", "Pawn", 54>>, <<"Black", "Pawn", 55>>,
               <<"White", "King", 7>>>>,
             "Black", {}, {}, 0, 1)

\* 7k/6pp/8/8/8/8/8/R6K w - - 0 1: Ra8 mates
FenMateInOne ==
    from_fen(<<<<"White", "Rook", 0>>, <<"Black", "King", 63>>,
               <<"Black", "Pawn", 54>>, <<"Black", "Pawn", 55>>,
               <<"White", "King", 7>>>>,
             "White", {}, {}, 0, 1)

\* k7/8/1Q6/8/8/8/8/7K b - - 0 1: Black is stalemated
FenStalemate ==
    from_fen(<<<<"Black", "King", 56>>, <<"White", "Queen", 41>>,
               <<"White", "King", 7>>>>,
             "Black", {}, {}, 0, 1)

SearchPositions == {FenBackRankMate, FenMateInOne, FenStalemate, FenPromotion}

InitMinimax ==
    /\ pos \in SearchPositions
    /\ prev = pos
    /\ mv = NoMove
    /\ ply = 0
    /\ nodes = NoPerft
    /\ ServiceInit

\* one call of eval_minimax on the current position; the search stays within
\* MaxPly plies of the position the game started from
EvalMinimax ==
    /\ call = NoCall
    /\ \E depth \in 0..(MaxPly - ply) :
          call' = [fn |-> "eval_minimax", depth |-> depth, out |-> eval_minimax(pos, depth)]
    /\ UNCHANGED <<pos, gameVars, shell, tableVars>>

NextMinimax == PlayMove \/ EvalMinimax

SpecMinimax == InitMinimax /\ [][NextMinimax]_vars

(***************************************************************************)
(* The infinite search and the shell commands that drive it                *)
(* (src/uci/mod.rs, src/search/basic_minimax.rs).  search.tasks holds one  *)
(* record per task spawned on the runtime: pos is the Position the task    *)
(* owns, depth and e the variables of MiniMaxMVP::infinite, info the last  *)
(* evaluation sent, sig the one-shot channel ("Open" or "Sent"), abort     *)
(* whether JoinHandle::abort was called, state "Running", "Finished" (the  *)
(* future returned), "Panicked", "Cancelled" (dropped at a yield point     *)
(* after abort) or "Killed" (the process ended).  search.slot is the       *)
(* worker slot, 0 for None and otherwise the index of the registered task; *)
(* search.handler is where the command handler stands: "Idle" between two  *)
(* commands, "Registering" between runtime.spawn and try_register,         *)
(* "Stopping" while the Stop arm waits; search.cur is the task it handles. *)
(* ghost.taken[i] is the stored position when task i was spawned and       *)
(* ghost.stored the position the shell last stored.                        *)
(***************************************************************************)
MaxTasks == 2
MaxIter == 2

EQUAL == [kind |-> "Approx", cp |-> 0, depth |-> 0]

NoInfo == [kind |-> "None"]

\* k7/1P6/8/8/8/8/8/7K w - - 0 1: the side not to move is in check
FenPawnChecks ==
    from_fen(<<<<"Black", "King", 56>>, <<"White", "Pawn", 49>>,
               <<"White", "King", 7>>>>,
             "White", {}, {}, 0, 1)

SearchRoots == {FenBackRankMate, FenStalemate, FenPawnUp, FenPawnChecks}

Search_new == [tasks |-> <<>>, slot |-> 0, handler |-> "Idle", cur |-> 0]

\* the task runtime.spawn creates for infinite(sigstop, p)
spawn(p) ==
    [pos |-> p, depth |-> 1, e |-> EQUAL, info |-> NoInfo, state |-> "Running",
     sig |-> "Open", abort |-> FALSE]

\* the task after the search branch returned x: x.unwrap(), the info line,
\* depth += 1
iteration_of(t, x) ==
    IF x.res = "Ok"
    THEN [t EXCEPT !.e = x.eval, !.info = x.eval, !.depth = @ + 1]
    ELSE [t EXCEPT !.state = "Panicked"]

\* an iteration that searches the task's own position in place and leaves
\* it with a square of the side to move toggled one rank further
infinite_iteration_in_place(t) ==
    LET src == First(t.pos.pos[turn(t.pos)].Pawn \cup t.pos.pos[turn(t.pos)].King)
        dst == IF turn(t.pos) = "White" THEN src + 8 ELSE src - 8
    IN [iteration_of(t, eval_minimax(t.pos, t.depth)) EXCEPT
           !.pos.pos = move_piece(@, turn(t.pos), "Pawn", src, dst)]

\* one turn of the loop of infinite in which select! completes the search
\* branch: eval_minimax on a clone of pos, then iteration_of
infinite_iteration(t) == iteration_of(t, eval_minimax(t.pos, t.depth))

\* a loop that sends the last e on the signal and goes on
infinite_continue(t) == [t EXCEPT !.info = t.e]

\* select! completes the sigstop branch: break, the last e is sent, return
infinite_break(t) == [t EXCEPT !.info = t.e, !.state = "Finished"]

\* the process ends: a panic of the command loop unwinds out of main
exit(tasks) ==
    [i \in 1..Len(tasks) |->
        IF tasks[i].state = "Running" THEN [tasks[i] EXCEPT !.state = "Killed"]
        ELSE tasks[i]]

RunningTasks == {i \in 1..Len(search.tasks) : search.tasks[i].state = "Running"}

searchFrame == <<gameVars, call, lookup, cache, pushes, fvec>>

InitSearch ==
    /\ pos \in SearchRoots
    /\ prev = pos
    /\ mv = NoMove
    /\ ply = 0
    /\ nodes = NoPerft
    /\ shell = ShellNew
    /\ call = NoCall
    /\ lookup = NoLookup
    /\ cache = NoCache
    /\ pushes = <<>>
    /\ fvec = NoVec
    /\ search = Search_new
    /\ ghost = [stored |-> pos, taken |-> <<>>]

\* Go Infinite up to runtime.spawn: the stored position is cloned and the
\* task starts on the runtime before try_register is called
GoSpawn ==
    /\ shell.state = "Running"
    /\ search.handler = "Idle"
    /\ shell.lines < MaxLines
    /\ Len(search.tasks) < MaxTasks
    /\ search' = [search EXCEPT !.tasks = Append(@, spawn(pos)),
                                !.handler = "Registering",
                                !.cur = Len(search.tasks) + 1]
    /\ ghost' = [ghost EXCEPT !.taken = Append(@, pos)]
    /\ shell' = [shell EXCEPT !.lines = @ + 1]
    /\ UNCHANGED <<pos, searchFrame>>

\* try_register: todo!("Cannot register") when the slot is taken
GoRegister ==
    /\ shell.state = "Running"
    /\ search.handler = "Registering"
    /\ IF search.slot # 0
       THEN /\ shell' = [shell EXCEPT !.state = "Panicked"]
            /\ search' = [search EXCEPT !.tasks = exit(@), !.handler = "Idle"]
       ELSE /\ search' = [search EXCEPT !.slot = search.cur, !.handler = "Idle"]
            /\ UNCHANGED shell
    /\ UNCHANGED <<pos, ghost, searchFrame>>

\* the Stop arm up to the select!: the slot is emptied and the signal sent;
\* send fails, and unwrap panics, when the task has ended and dropped its
\* receiver
StopCmd ==
    /\ shell.state = "Running"
    /\ search.handler = "Idle"
    /\ shell.lines < MaxLines
    /\ IF search.slot = 0
       THEN /\ shell' = [shell EXCEPT !.lines = @ + 1]
            /\ UNCHANGED search
       ELSE IF search.tasks[search.slot].state # "Running"
            THEN /\ shell' = [shell EXCEPT !.lines = @ + 1, !.state = "Panicked"]
                 /\ search' = [search EXCEPT !.slot = 0, !.tasks = exit(@)]
            ELSE /\ shell' = [shell EXCEPT !.lines = @ + 1]
                 /\ search' = [search EXCEPT !.slot = 0,
                                             !.handler = "Stopping",
                                             !.cur = search.slot,
                                             !.tasks[search.slot].sig = "Sent"]
    /\ UNCHANGED <<pos, ghost, searchFrame>>

\* the Stop arm after the select!: the task was seen finished, or the
\* 1000 ms ran out and the handle is aborted if the task is still running
StopReturn ==
    /\ shell.state = "Running"
    /\ search.handler = "Stopping"
    /\ search' = [search EXCEPT !.handler = "Idle",
                                !.tasks[search.cur].abort =
                                    search.tasks[search.cur].state = "Running"]
    /\ UNCHANGED <<pos, shell, ghost, searchFrame>>

\* the Position arm: the stored position is replaced
PositionCmd ==
    /\ shell.state = "Running"
    /\ search.handler = "Idle"
    /\ shell.lines < MaxLines
    /\ \E p \in SearchRoots :
          /\ pos' = p
          /\ ghost' = [ghost EXCEPT !.stored = p]
    /\ shell' = [shell EXCEPT !.lines = @ + 1]
    /\ UNCHANGED <<search, searchFrame>>

TaskIterate(i) ==
    /\ shell.state = "Running"
    /\ i \in RunningTasks
    /\ search.tasks[i].depth <= MaxIter
    /\ search' = [search EXCEPT !.tasks[i] = infinite_iteration(@)]
    /\ UNCHANGED <<pos, shell, ghost, searchFrame>>

TaskBreak(i) ==
    /\ shell.state = "Running"
    /\ i \in RunningTasks
    /\ search.tasks[i].sig = "Sent"
    /\ search' = [search EXCEPT !.tasks[i] = infinite_break(@)]
    /\ UNCHANGED <<pos, shell, ghost, searchFrame>>

\* an aborted task is dropped the next time it yields
TaskCancel(i) ==
    /\ shell.state = "Running"
    /\ i \in RunningTasks
    /\ search.tasks[i].abort
    /\ search' = [search EXCEPT !.tasks[i].state = "Cancelled"]
    /\ UNCHANGED <<pos, shell, ghost, searchFrame>>

NextSearch ==
    \/ GoSpawn
    \/ GoRegister
    \/ StopCmd
    \/ StopReturn
    \/ PositionCmd
    \/ \E i \in 1..MaxTasks : TaskIterate(i)
    \/ \E i \in 1..MaxTasks : TaskBreak(i)
    \/ \E i \in 1..MaxTasks : TaskCancel(i)

SpecSearch == InitSearch /\ [][NextSearch]_vars

\* select! polls its branches in random order, so a task whose signal was
\* sent does not skip the sigstop branch for ever; the Stop arm returns
\* after 1000 ms at the latest; try_register follows spawn at once
SpecSearchFair ==
    /\ SpecSearch
    /\ WF_vars(GoRegister)
    /\ WF_vars(StopReturn)
    /\ \A i \in 1..MaxTasks : WF_vars(TaskBreak(i))


(***************************************************************************)
(* Direct calls on the piece storage: add_new_piece, remove_piece and      *)
(* move_piece with any player, piece and square, starting from empty() or  *)
(* startingpos().                                                          *)
(***************************************************************************)
CallSquares == {Sq(4, 0), Sq(4, 1), Sq(4, 3)}
CallPieces == {"Pawn", "Rook", "King"}

InitPieceSet ==
    /\ pos \in {PositionEmpty, PositionStartingpos}
    /\ prev = pos
    /\ mv = NoMove
    /\ ply = 0
    /\ nodes = NoPerft
    /\ ServiceInit

AddNewPiece ==
    /\ ply < MaxCalls
    /\ \E pl \in Players, index \in CallPieces, sq \in CallSquares :
          pos' = [pos EXCEPT !.pos = add_new_piece(@, pl, index, sq)]
    /\ ply' = ply + 1
    /\ UNCHANGED <<prev, mv, nodes>>
    /\ UNCHANGED serviceVars

RemovePiece ==
    /\ ply < MaxCalls
    /\ \E pl \in Players, index \in CallPieces, sq \in CallSquares :
          pos' = [pos EXCEPT !.pos = remove_piece(@, pl, index, sq)]
    /\ ply' = ply + 1
    /\ UNCHANGED <<prev, mv, nodes>>
    /\ UNCHANGED serviceVars

MovePiece ==
    /\ ply < MaxCalls
    /\ \E pl \in Players, index \in CallPieces, src \in CallSquares, dest \in CallSquares :
          pos' = [pos EXCEPT !.pos = move_piece(@, pl, index, src, dest)]
    /\ ply' = ply + 1
    /\ UNCHANGED <<prev, mv, nodes>>
    /\ UNCHANGED serviceVars

NextPieceSet == AddNewPiece \/ RemovePiece \/ MovePiece

SpecPieceSet == InitPieceSet /\ [][NextPieceSet]_vars

(***************************************************************************)
(* What the properties below read off a position: the board as the piece   *)
(* bitboards give it, who attacks what on that board, who moved last.      *)
(***************************************************************************)
PieceUnion(ps) == UNION {ps[piece] : piece \in Pieces}

Board(p) == PieceUnion(p.pos.White) \cup PieceUnion(p.pos.Black)

AttackedBy(p, pl) == attacks(p.pos[pl], pl, Board(p))

InCheck(p, pl) == p.pos[pl].King \cap AttackedBy(p, other(pl)) # {}

Mover == turn(prev)

Moved == ply > 0

PawnMoved == pos.pos[Mover].Pawn # prev.pos[Mover].Pawn

Captured == PieceUnion(pos.pos[other(Mover)]) # PieceUnion(prev.pos[other(Mover)])

HomeSquare(pl, f) == Sq(f, IF pl = "White" THEN 0 ELSE 7)

\* C1: whenever the side not to move was not in check before a generated
\* move, the king of the side that played it is not attacked afterwards
C1_EmittedMovesLeaveKingSafe ==
    (Moved /\ ~InCheck(prev, other(Mover))) => ~InCheck(pos, Mover)

\* C2: in every reachable position the twelve piece bitboards are pairwise
\* disjoint and each cached occupancy is the union of its six bitboards
C2_DisjointBitboardsAndOccupancy ==
    /\ \A pl \in Players : pos.pos[pl].occupied = PieceUnion(pos.pos[pl])
    /\ \A a, b \in Players \X Pieces :
          a # b => pos.pos[a[1]][a[2]] \cap pos.pos[b[1]][b[2]] = {}

\* the Zobrist hash of a piece set recomputed from its six bitboards
RecomputedHash(ps, pl) ==
    UNION {zobrist_hash_bitboard(ps[piece], piece, pl) : piece \in Pieces}

\* C3: after any sequence of add_new_piece, remove_piece and move_piece calls
\* each cached hash equals the hash recomputed from the bitboards, and the
\* storage hash is the XOR of the two
C3_HashIsRecomputedZobrist ==
    /\ \A pl \in Players : pos.pos[pl].hash = RecomputedHash(pos.pos[pl], pl)
    /\ zobrist(pos.pos) = Xor(RecomputedHash(pos.pos.White, "White"),
                              RecomputedHash(pos.pos.Black, "Black"))

\* at least two calls were made and both hashes moved away from their first value
C3_Witness ==
    /\ ply >= 2
    /\ pos.pos.White.hash # prev.pos.White.hash
    /\ pos.pos.Black.hash # prev.pos.Black.hash
    /\ pos.pos.White.hash # {}

\* C4: a castle played with the king on its e-file home square and the rook
\* on its corner leaves the king bitboard exactly on g (short) or c (long),
\* the rook on f or d, and both origin squares empty
C4_CastleMovesKingAndRook ==
    LET pl == Mover
        c == mv.castle
        king_src == HomeSquare(pl, 4)
        rook_src == HomeSquare(pl, IF c = "Short" THEN 7 ELSE 0)
        king_dst == HomeSquare(pl, IF c = "Short" THEN 6 ELSE 2)
        rook_dst == HomeSquare(pl, IF c = "Short" THEN 5 ELSE 3)
    IN (/\ Moved
        /\ mv.kind = "Castle"
        /\ prev.pos[pl].King = {king_src}
        /\ rook_src \in prev.pos[pl].Rook)
       => /\ pos.pos[pl].King = {king_dst}
          /\ rook_dst \in pos.pos[pl].Rook
          /\ Board(pos) \cap {king_src, rook_src} = {}

\* C7: a move sets fifty_mv to 0 when it is a pawn move or a capture and to
\* the previous value plus one otherwise
C7_FiftyMoveCounter ==
    Moved => pos.fifty_mv = IF PawnMoved \/ Captured THEN 0 ELSE prev.fifty_mv + 1

\* the conditions under which player pl may castle on side c in position p
CastleAllowed(p, pl, c) ==
    LET king_path == IF c = "Short"
                     THEN {HomeSquare(pl, 4), HomeSquare(pl, 5), HomeSquare(pl, 6)}
                     ELSE {HomeSquare(pl, 4), HomeSquare(pl, 3), HomeSquare(pl, 2)}
        between == IF c = "Short"
                   THEN {HomeSquare(pl, 5), HomeSquare(pl, 6)}
                   ELSE {HomeSquare(pl, 1), HomeSquare(pl, 2), HomeSquare(pl, 3)}
    IN /\ fetch(p.castles, pl, c)
       /\ AttackedBy(p, other(pl)) \cap king_path = {}
       /\ Board(p) \cap between = {}

CastleEmitted(p, c) ==
    \E m \in list_issues(p).moves : m.kind = "Castle" /\ m.castle = c

\* C9: the move list holds the castle of a side exactly when the right is
\* set, e/f/g (e/d/c) are not attacked and f/g (b/c/d) are empty; no king
\* move of the list spans two files
C9_CastleEmittedIffAllowed ==
    list_issues(pos).res = "Ok" =>
        /\ \A c \in Castles : CastleEmitted(pos, c) <=> CastleAllowed(pos, turn(pos), c)
        /\ \A m \in list_issues(pos).moves :
              (m.kind = "Std" /\ m.p = "King") =>
                  (FileOf(m.from) - FileOf(m.dest)) \in {-1, 0, 1}

\* the side to move holds both rights, the long castle is in the list and the
\* short one is kept out because a square of the king's path is attacked
C9_Witness ==
    /\ list_issues(pos).res = "Ok"
    /\ fetch(pos.castles, turn(pos), "Short")
    /\ fetch(pos.castles, turn(pos), "Long")
    /\ CastleEmitted(pos, "Long")
    /\ ~CastleEmitted(pos, "Short")
    /\ Board(pos) \cap {HomeSquare(turn(pos), 5), HomeSquare(turn(pos), 6)} = {}

(***************************************************************************)
(* Properties of one applied move, read off the position before and after. *)
(***************************************************************************)
Forward(pl, sq, n) == IF pl = "White" THEN sq + 8 * n ELSE sq - 8 * n

\* the piece that left its square, and the two squares, of either kind of move
MovedPiece ==
    IF "piece" \in DOMAIN mv THEN mv.piece ELSE IF mv.prom THEN "Pawn" ELSE mv.p

MoveSrc == IF "src" \in DOMAIN mv THEN mv.src ELSE mv.from

MoveDest == mv.dest

\* a pawn moved diagonally onto a square of the en-passant bitboard
EnPassantCapture ==
    /\ Moved
    /\ MovedPiece = "Pawn"
    /\ MoveDest \in prev.en_passant
    /\ FileOf(MoveSrc) # FileOf(MoveDest)

\* C5: an en-passant capture removes exactly the opposing pawn one rank
\* behind the destination, leaves every other opposing piece in place and
\* adds no piece: the capturing pawn is the only other change
C5_EnPassantRemovesPawnBehind ==
    EnPassantCapture =>
        LET victim == Forward(Mover, MoveDest, -1)
            opp == other(Mover)
        IN /\ victim \in prev.pos[opp].Pawn
           /\ pos.pos[opp].Pawn = prev.pos[opp].Pawn \ {victim}
           /\ \A piece \in Pieces \ {"Pawn"} : pos.pos[opp][piece] = prev.pos[opp][piece]
           /\ pos.pos[Mover].Pawn = (prev.pos[Mover].Pawn \ {MoveSrc}) \cup {MoveDest}
           /\ \A piece \in Pieces \ {"Pawn"} : pos.pos[Mover][piece] = prev.pos[Mover][piece]

\* a pawn advanced two squares from its home rank
DoublePush ==
    /\ MovedPiece = "Pawn"
    /\ RankOf(MoveSrc) = (IF Mover = "White" THEN 1 ELSE 6)
    /\ MoveDest = Forward(Mover, MoveSrc, 2)

\* C6: after a move en_passant is empty, unless a pawn advanced two squares
\* from its home rank, and then it is the square between source and
\* destination
C6_EnPassantSetOnlyByDoublePush ==
    Moved => pos.en_passant = IF DoublePush THEN {Forward(Mover, MoveSrc, 1)} ELSE {}

\* the rights a move takes away
RightsLost(pl, piece, src, dest) ==
    (IF piece = "King" THEN {CastleBit(pl, "Short"), CastleBit(pl, "Long")} ELSE {})
    \cup (IF piece = "Rook" /\ src = HomeSquare(pl, 0) THEN {CastleBit(pl, "Long")} ELSE {})
    \cup (IF piece = "Rook" /\ src = HomeSquare(pl, 7) THEN {CastleBit(pl, "Short")} ELSE {})
    \cup (IF dest = HomeSquare(other(pl), 0) THEN {CastleBit(other(pl), "Long")} ELSE {})
    \cup (IF dest = HomeSquare(other(pl), 7) THEN {CastleBit(other(pl), "Short")} ELSE {})

\* C8: a move clears the mover's rights when its king moves, one right when a
\* rook leaves its corner, the opponent's right when a piece lands on the
\* opponent's corner, changes no other right and sets none
C8_CastlingRightsCleared ==
    Moved => pos.castles = prev.castles \ RightsLost(Mover, MovedPiece, MoveSrc, MoveDest)

\* C10: from the starting position the enumeration yields 20 successors and
\* perft answers 20, 400 and 8902 at depths 1, 2 and 3
C10_PerftStartpos ==
    /\ pos = PositionStartingpos => Cardinality(map_issues(pos)) = 20
    /\ (pos = PositionStartingpos /\ nodes.depth = 1) => nodes.count = 20
    /\ (pos = PositionStartingpos /\ nodes.depth = 2) => nodes.count = 400
    /\ (pos = PositionStartingpos /\ nodes.depth = 3) => nodes.count = 8902

\* C11: for the position White king h1, White pawn a2, Black king a8, White
\* to move, perft is 1 at depth 0 and 5, 15, 96, 574 at depths 1 to 4
PawnUpCounts == <<5, 15, 96, 574>>

C11_PerftPawnUp ==
    (pos = FenPawnUp /\ nodes # NoPerft) =>
        /\ nodes.depth = 0 => nodes.count = 1
        /\ nodes.depth \in 1..4 => nodes.count = PawnUpCounts[nodes.depth]

\* perft at depth 4 was asked on the pawn_up position
C11_Witness ==
    pos = FenPawnUp /\ nodes # NoPerft /\ nodes.depth = 4

PromotionPieces == {"Queen", "Rook", "Bishop", "Knight"}

\* a pawn arrived on rank 1 or rank 8
PromotingMove == Moved /\ MovedPiece = "Pawn" /\ MoveDest \in Rank1 \cup Rank8

\* the positions the enumeration yields for the source and destination of mv
Outcomes ==
    IF "piece" \in DOMAIN mv
    THEN {o.q : o \in {x \in map_issues(prev) : x.ch = mv}}
    ELSE {stack(prev, m) : m \in {x \in list_issues(prev).moves :
                                      x.from = mv.from /\ x.dest = mv.dest}}

\* square sq holds piece np of player pl and nothing else
HoldsOnly(q, pl, np, sq) ==
    /\ \A piece \in Pieces : sq \in q.pos[pl][piece] <=> piece = np
    /\ sq \notin PieceUnion(q.pos[other(pl)])

GeneratedCount(p) ==
    IF "piece" \in DOMAIN mv THEN Cardinality(map_issues(p))
    ELSE Cardinality(list_issues(p).moves)

\* C12: a pawn move arriving on rank 1 or rank 8 yields exactly four
\* outcomes, one per promotion piece, each with that piece alone on the
\* destination and no pawn of the mover on rank 1 or 8; the position
\* 7k/P7/8/8/8/8/8/7K w has exactly 7 moves
C12_PromotionFourOutcomes ==
    /\ PromotingMove =>
          /\ Cardinality(Outcomes) = 4
          /\ pos \in Outcomes
          /\ \A np \in PromotionPieces :
                \E q \in Outcomes : HoldsOnly(q, Mover, np, MoveDest)
          /\ \A q \in Outcomes :
                /\ q.pos[Mover].Pawn \cap (Rank1 \cup Rank8) = {}
                /\ q.pos[Mover].Pawn = prev.pos[Mover].Pawn \ {MoveSrc}
          /\ pos.pos[Mover].Pawn \cap (Rank1 \cup Rank8) = {}
    /\ (Moved /\ prev = FenPromotion) => GeneratedCount(prev) = 7

\* a pawn has just promoted with a capture
C12_Witness ==
    PromotingMove /\ Captured /\ HoldsOnly(pos, Mover, "Knight", MoveDest)

\* C13: when the king of the side not to move is attacked by a piece of the
\* side to move, list_issues yields no move and returns the error outcome
C13_IllegalEntryIsError ==
    (HasKing(pos, "White") /\ HasKing(pos, "Black")
        /\ InCheck(pos, other(turn(pos)))) =>
            list_issues(pos) = [res |-> "Err", moves |-> {}]

\* C14: a line that is an unrecognised or malformed command, a position
\* command with a malformed FEN or with a move word matching no legal move,
\* never ends the loop: the loop stays running after it, and only quit
\* makes it return
C14_FailuresNeverTerminate ==
    /\ shell.line \in FailureLines => shell.state = "Running"
    /\ shell.state = "Returned" => shell.line = <<StrQuit>>

\* the square an algebraic name denotes: file letter, then rank digit
AlgebraicSquare(s) ==
    Sq(CHOOSE f \in 0..7 : SquareName(Sq(f, 0))[1] = s[1], DigitValue(s[2]) - 1)

\* C15: from_fen with an en-passant field naming a square of rank 3 or 6
\* returns a position whose en_passant is exactly that square, and with the
\* field "-" a position whose en_passant is empty; neither aborts
C15_FenEnPassantParsed ==
    call.fn = "from_fen" =>
        /\ call.out.res = "Ok"
        /\ call.out.p.en_passant =
              (IF call.en_passant = <<"-">> THEN {}
               ELSE {AlgebraicSquare(call.en_passant)})

\* C16: from_fen gives half_move_count = 2 * (fullmove - 1), plus 1 when
\* Black is to move, so the starting FEN gives 0 as startingpos() does, and
\* turn() is White exactly when the side field is "w"
C16_FenHalfMoveCount ==
    (call.fn = "from_fen" /\ call.out.res = "Ok") =>
        /\ call.out.p.half_move_count =
              2 * (parse_u16(call.full_moves) - 1)
                 + (IF call.turn = <<"b">> THEN 1 ELSE 0)
        /\ turn(call.out.p) = "White" <=> call.turn = <<"w">>
        /\ (call.fen = BoardStartpos /\ call.turn = <<"w">> /\ call.full_moves = <<"1">>)
              => call.out.p.half_move_count = PositionStartingpos.half_move_count

\* C17: for every set of source squares and every blocker set, the table
\* generators Lookup::generate_bishops / generate_rooks / generate_queens
\* return exactly the bitboard the dynamic generators return.
C17_StaticEqualsDynamic ==
    call.fn = "Lookup" => call.dests = [res |-> "Ok", bb |-> call.dyn]

\* two queens that are themselves blockers, looked up among other blockers
C17_Witness ==
    /\ call.fn = "Lookup"
    /\ call.kind = "queens"
    /\ Cardinality(call.p) > 1
    /\ call.p \subseteq call.blockers
    /\ call.blockers \ call.p # {}
    /\ call.dests.res = "Ok"
    /\ call.dests.bb # {}

RookDirections == {<<1, 0>>, <<-1, 0>>, <<0, 1>>, <<0, -1>>}
BishopDirections == {<<1, 1>>, <<1, -1>>, <<-1, 1>>, <<-1, -1>>}
SliderDirections(kind) ==
    CASE kind = "rooks" -> RookDirections
      [] kind = "bishops" -> BishopDirections
      [] kind = "queens" -> RookDirections \cup BishopDirections

\* the k-th square from s in direction d, or no square when it is off the board
Along(s, d, k) ==
    LET f == FileOf(s) + k * d[1]
        r == RankOf(s) + k * d[2]
    IN IF f \in 0..7 /\ r \in 0..7 THEN {Sq(f, r)} ELSE {}

\* from the neighbour of s in direction d up to and including the first blocker
\* or the last square before the edge
RaySquares(s, d, blockers) ==
    UNION {Along(s, d, k) : k \in {n \in 1..7 :
                \A j \in 1..(n - 1) : Along(s, d, j) # {} /\ Along(s, d, j) \cap blockers = {}}}

\* C18: for every source set and every blocker set, the dynamic generate_rooks
\* (generate_bishops) returns the union over the sources and the four
\* orthogonal (diagonal) directions of the squares from the neighbour up to and
\* including the first blocker or the edge, never wrapping between the a and h
\* files; generate_queens returns the union of the two.
C18_DynamicSlidersAreRays ==
    (call.fn = "dyn_attacks" /\ call.kind \in SliderKinds) =>
        call.out = UNION {RaySquares(s, d, call.blockers) :
                            s \in call.p, d \in SliderDirections(call.kind)}

\* rooks on d4 and f4, both blockers, with blockers on d5, d6 and b4: the rays
\* stop on d5 and b4, and pass f4 to reach h4
C18_Witness ==
    /\ call.fn = "dyn_attacks"
    /\ call.kind = "rooks"
    /\ call.p = {Sq(3, 3), Sq(5, 3)}
    /\ call.p \subseteq call.blockers
    /\ {Sq(3, 4), Sq(3, 5), Sq(1, 3)} \subseteq call.blockers
    /\ {Sq(3, 4), Sq(1, 3), Sq(7, 3)} \subseteq call.out
    /\ call.out \cap {Sq(3, 5), Sq(0, 3)} = {}

KingOffsets == {d \in (-1..1) \X (-1..1) : d # <<0, 0>>}
KnightOffsets == {d \in (-2..2) \X (-2..2) : d[1] * d[1] + d[2] * d[2] = 5}
PawnOffsets(pl) == IF pl = "White" THEN {<<-1, 1>>, <<1, 1>>} ELSE {<<-1, -1>>, <<1, -1>>}

\* the on-board squares one offset away from a source
Targets(p, offsets) == UNION {Along(s, d, 1) : s \in p, d \in offsets}

\* C19: generate_king returns the on-board squares adjacent to the source,
\* generate_knights the on-board knight jumps of every source, generate_pawns
\* the two forward diagonals of every source (north for White, south for
\* Black); no target lies on the other side of the board.
C19_FixedOffsetTargets ==
    (call.fn = "dyn_attacks" /\ call.kind \in FixedKinds) =>
        CASE call.kind = "king" -> call.out = Targets(call.p, KingOffsets)
          [] call.kind = "knights" -> call.out = Targets(call.p, KnightOffsets)
          [] call.kind = "pawns" -> call.out = Targets(call.p, PawnOffsets(call.pl))

\* knights on b1 and g8: three jumps each, none across the board
C19_Witness ==
    /\ call.fn = "dyn_attacks"
    /\ call.kind = "knights"
    /\ call.p = {Sq(1, 0), Sq(6, 7)}
    /\ call.out = {Sq(0, 2), Sq(2, 2), Sq(3, 1), Sq(4, 6), Sq(5, 5), Sq(7, 5)}

\* every push so far was for one and the same position
OnePosition == pushes # <<>> /\ \A i \in 1..Len(pushes) : pushes[i][1] = pushes[1][1]

\* the last push among those of greatest depth
BestPush ==
    CHOOSE i \in 1..Len(pushes) :
        \A j \in 1..Len(pushes) :
            \/ pushes[j][2].depth < pushes[i][2].depth
            \/ pushes[j][2].depth = pushes[i][2].depth /\ j <= i

\* C20: after pushes for one position, index(position) returns the pushed
\* entry of greatest depth, the most recent among those of equal depth (a push
\* of smaller depth leaves the slot as it was, one of greater or equal depth
\* replaces it); index on a slot that was never written returns None.
C20_CacheKeepsDeepest ==
    /\ OnePosition =>
          Cache_index(cache, pushes[1][1]) = [res |-> "Some", x |-> pushes[BestPush][2]]
    /\ \A k \in CacheKeys :
          (\A i \in 1..Len(pushes) : compute_index(cache, pushes[i][1]) # compute_index(cache, k))
              => Cache_index(cache, k) = [res |-> "None"]

\* the pushes of the unit test: depth 1, depth 2, depth 1 again
C20_Witness ==
    /\ OnePosition
    /\ Len(pushes) = 3
    /\ pushes[1][2] = [nodes |-> 20, depth |-> 1]
    /\ pushes[2][2] = [nodes |-> 400, depth |-> 2]
    /\ pushes[3][2] = [nodes |-> 20, depth |-> 1]
    /\ Cache_index(cache, pushes[1][1]) = [res |-> "Some", x |-> [nodes |-> 400, depth |-> 2]]

\* the material of White minus the material of Black, in centipawns
MaterialDifference(p) ==
    LET kinds == <<"Pawn", "Knight", "Bishop", "Rook", "Queen">>
    IN SumSeq([i \in 1..5 |->
                 value(kinds[i]) * (Cardinality(p.pos.White[kinds[i]])
                                    - Cardinality(p.pos.Black[kinds[i]]))], 1)

\* C25: MaterialBalance::eval returns, for every position, the material
\* difference in centipawns with the weights 100, 300, 300, 500 and 900.
C25_EvalIsMaterialDifference ==
    eval_fn(pos) = [kind |-> "Approx", cp |-> MaterialDifference(pos), depth |-> 0]

\* C26: for every sequence of push and pop calls a FastVec behaves like a
\* growable vector: len() is pushes minus successful pops, pop returns the
\* most recently pushed element not yet popped (None when empty), iter() and
\* indexing return the elements in insertion order, also across the stack
\* capacity N.
C26_FastVecIsVector ==
    /\ FastVec_len(fvec) = Len(ghost.items)
    /\ call.fn = "pop" => call.out = ghost.popped
    /\ FastVec_iter(fvec, 0) = ghost.items
    /\ \A i \in 0..(Len(ghost.items) - 1) :
          FastVec_index(fvec, i) = [res |-> "Ok", x |-> ghost.items[i + 1]]

\* six calls, one of them a pop of the empty vector: the heap was used, emptied
\* by a pop and used again by the last push
C26_Witness ==
    /\ ghost.ops = 6
    /\ ghost.items = <<"a", "b", "b">>
    /\ call.fn = "push"
    /\ fvec.already_init_heap
    /\ fvec.heap = <<"b">>
    /\ fvec.stack[1] = "b"

\* the occupied (player, piece, square) triples of a storage
OccupiedTriples(st) ==
    {<<pl, pc, sq>> \in Players \X Pieces \X Squares : sq \in st[pl][pc]}

\* C29: PlayerStorage::map_reduce applies the task exactly once to every
\* occupied (player, piece, square) triple, for both players and all six piece
\* kinds, and returns None only when the board is empty.
C29_MapReduceVisitsEveryPiece ==
    LET t == map_reduce_triples(pos.pos)
    IN /\ {t[i] : i \in 1..Len(t)} = OccupiedTriples(pos.pos)
       /\ Len(t) = Cardinality(OccupiedTriples(pos.pos))
       /\ map_reduce_is_none(pos.pos) => OccupiedTriples(pos.pos) = {}

\* C24: the notation produced for a castle move is exactly the four
\* characters of the king's two-square move, e1g1 and e1c1 for White short
\* and long, e8g8 and e8c8 for Black, so that the same user string matches it
C24_CastleNotationIsKingMove ==
    (Moved /\ mv.kind = "Castle")
        => /\ PartialMove_fmt(mv, Mover) = notation(mv.from, mv.dest)
           /\ PartialMove_fmt(mv, Mover) = castle_to_uci(mv.castle, Mover)
           /\ Len(PartialMove_fmt(mv, Mover)) = 4

\* the quiet-push destinations of a pawn of pl on src: one step ahead when
\* that square is empty, two steps ahead when the pawn is on its own home
\* rank and both squares are empty
QuietPushes(src, pl, blockers) ==
    LET fw == IF pl = "White" THEN 8 ELSE 0 - 8
        home == RankOf(src) = (IF pl = "White" THEN 1 ELSE 6)
    IN ({src + fw} \ blockers)
       \cup (IF home /\ src + fw \notin blockers /\ src + 2 * fw \notin blockers
             THEN {src + 2 * fw} ELSE {})

\* C27: for a pawn of either colour on ranks 2 to 7 the quiet pushes are the
\* empty square one step ahead, plus the square two steps ahead exactly when
\* the pawn is on its own home rank and both squares are empty; a pawn on the
\* opponent's home rank gets no two-square push
C27_PawnQuietPushes ==
    (call # NoCall /\ call.fn = "pawn_move_up_nocap")
        => /\ call.out = QuietPushes(call.src, call.pl, call.blockers)
           /\ call.out \subseteq Squares
           /\ RankOf(call.src) = (IF call.pl = "White" THEN 6 ELSE 1)
                 => Cardinality(call.out) <= 1

\* a White pawn on the seventh rank with an empty square ahead: one push
C27_Witness ==
    /\ call # NoCall
    /\ call.fn = "pawn_move_up_nocap"
    /\ call.pl = "White"
    /\ call.src = Sq(4, 6)
    /\ call.out = {Sq(4, 7)}

C28_NoMoveDrawOnlyWithoutCheck ==
    (/\ call # NoCall
     /\ call.fn = "eval_minimax"
     /\ call.depth >= 1
     /\ list_issues(pos).res = "Ok"
     /\ list_issues(pos).moves = {})
        => /\ call.out.res = "Ok"
           /\ call.out.eval = IF InCheck(pos, turn(pos)) THEN m0(other(turn(pos))) ELSE draw

\* C21: every stop processed while a search is registered is followed by
\* the end of that task, which breaks on the signal or is aborted at the
\* deadline; when the Stop arm returns the slot is empty and the task has
\* ended or its handle is aborted
C21_StopEndsSearch ==
    /\ \A i \in 1..MaxTasks :
          (i <= Len(search.tasks) /\ search.tasks[i].sig = "Sent")
              ~> (i <= Len(search.tasks) /\ search.tasks[i].state # "Running")
    /\ [][StopReturn =>
             /\ search'.slot = 0
             /\ \/ search'.tasks[search.cur].state \in {"Finished", "Panicked"}
                \/ search'.tasks[search.cur].abort]_vars

\* a task that iterated, received the signal and finished on it
C21_Witness ==
    \E i \in 1..Len(search.tasks) :
        /\ search.tasks[i].sig = "Sent"
        /\ search.tasks[i].state = "Finished"
        /\ search.tasks[i].depth > 1
        /\ search.tasks[i].info = search.tasks[i].e
        /\ search.slot = 0
        /\ search.handler = "Idle"

\* C22: a position command during a search changes the stored position
\* only: every task still holds the position stored when it was spawned,
\* and the stored position is the one the shell last stored
C22_SearchOwnsItsPosition ==
    /\ pos = ghost.stored
    /\ \A i \in 1..Len(search.tasks) : search.tasks[i].pos = ghost.taken[i]

\* a running task that has iterated while the stored position was replaced
C22_Witness ==
    \E i \in 1..Len(search.tasks) :
        /\ search.tasks[i].state = "Running"
        /\ search.tasks[i].depth > 1
        /\ search.tasks[i].pos # pos
        /\ list_issues(search.tasks[i].pos).moves # {}

\* C30: at most one search task exists at any time, and a task that runs is
\* the registered one or the one the Stop arm is waiting for
C30_AtMostOneSearchTask ==
    /\ Cardinality(RunningTasks) <= 1
    /\ \A i \in RunningTasks :
          \/ search.slot = i
          \/ search.handler # "Idle" /\ search.cur = i

====
